---- MODULE Spec2Model ----
(***************************************************************************)
(* Model of the SQL guard of the LLM->SQL service.                         *)
(*                                                                         *)
(* A SQL text is a sequence of lexemes.  A lexeme is a maximal run of      *)
(* word characters [A-Za-z0-9_] (a word or a decimal number), one white-   *)
(* space character, or one punctuation character.  The regular expressions *)
(* of the source are translated lexeme by lexeme: \b is the border between *)
(* a word lexeme and a non-word lexeme, \s+ a run of white-space lexemes,  *)
(* [a-z_][a-z0-9_]* a word lexeme that is not a number.  The texts of the  *)
(* model contain no word that has another word of a pattern as a proper    *)
(* prefix (no "selected", "without"), so a pattern never matches inside a  *)
(* lexeme.                                                                 *)
(***************************************************************************)
EXTENDS Integers, Sequences, FiniteSets, TLC

VARIABLES cand, sql, op, res, question

\* One request in a handler: which handler, the request, the awaited step it is
\* at and the phase inside a database block, the connections checked out of the
\* pool, the schema cache, the handler's locals, the trace and the response.
VARIABLES hv, env, pc, ph, inUse, schemaCache, plannedSql, safeSql, rows, log, resp

\* The requests waiting for a connection of the pool, first come first (the
\* specification of concurrent requests; empty everywhere else).
VARIABLES queue

gvars == <<cand, sql, op, res, question>>
hvars == <<hv, env, pc, ph, inUse, schemaCache, plannedSql, safeSql, rows, log, resp,
          queue>>
vars == <<gvars, hvars>>

\* ------------------------------------------------------------------ lexemes

W(x) == [w |-> x, n |-> -1]
Num(v) == [w |-> "#", n |-> v]
Toks(ws) == [i \in DOMAIN ws |-> W(ws[i])]

SpaceChars == {" ", "\n"}
PunctChars == {";", ".", "(", ")", ",", "'", "-", "*", "/", "=", ">", "<"}

IsSpace(t) == t.w \in SpaceChars
IsNum(t) == t.w = "#"
IsWordTok(t) == t.w \notin SpaceChars /\ t.w \notin PunctChars
IsIdent(t) == IsWordTok(t) /\ ~IsNum(t)
Is(t, c) == t.w = c

\* String.prototype.toLowerCase on the words of the model's texts.
LowerTable ==
  [x \in {"SELECT", "WITH", "FROM", "JOIN", "AS", "LIMIT", "DROP", "Drop", "TABLE",
          "WHERE", "ORDER", "BY", "ON", "Secret", "PG_CATALOG", "Limit", "PUBLIC",
          "GROUP", "WITHIN", "OVER", "AND"} |->
     CASE x = "SELECT" -> "select" [] x = "WITH" -> "with" [] x = "FROM" -> "from"
       [] x = "JOIN" -> "join" [] x = "AS" -> "as" [] x = "LIMIT" -> "limit"
       [] x = "Limit" -> "limit" [] x = "DROP" -> "drop" [] x = "Drop" -> "drop"
       [] x = "TABLE" -> "table" [] x = "WHERE" -> "where" [] x = "ORDER" -> "order"
       [] x = "BY" -> "by" [] x = "ON" -> "on" [] x = "Secret" -> "secret"
       [] x = "PG_CATALOG" -> "pg_catalog" [] x = "PUBLIC" -> "public"
       [] x = "GROUP" -> "group" [] x = "WITHIN" -> "within" [] x = "OVER" -> "over"
       [] x = "AND" -> "and"]
Lower(x) == IF x \in DOMAIN LowerTable THEN LowerTable[x] ELSE x

\* Word lexeme at i whose lower-case form is in ws, with \b on both sides.
WordAt(s, i, ws) ==
  /\ i \in DOMAIN s
  /\ IsWordTok(s[i])
  /\ Lower(s[i].w) \in ws
  /\ (i = 1 \/ ~IsWordTok(s[i - 1]))
  /\ (i = Len(s) \/ ~IsWordTok(s[i + 1]))

\* The first position >= i that holds no white space (Len(s) + 1 when none).
RECURSIVE SkipSpaces(_, _)
SkipSpaces(s, i) ==
  IF i \in DOMAIN s /\ IsSpace(s[i]) THEN SkipSpaces(s, i + 1) ELSE i

RECURSIVE TrimLeft(_)
TrimLeft(s) == IF s # <<>> /\ IsSpace(Head(s)) THEN TrimLeft(Tail(s)) ELSE s
RECURSIVE TrimRight(_)
TrimRight(s) ==
  IF s # <<>> /\ IsSpace(s[Len(s)]) THEN TrimRight(SubSeq(s, 1, Len(s) - 1)) ELSE s
\* String.prototype.trim
Trim(s) == TrimRight(TrimLeft(s))

Includes(s, c) == \E i \in DOMAIN s : Is(s[i], c)

\* ------------------------------------------------------------ results

Accept(out) == [ok |-> TRUE, err |-> "", detail |-> <<>>, out |-> out]
Reject(e, d) == [ok |-> FALSE, err |-> e, detail |-> d, out |-> <<>>]
NoResult == [ok |-> FALSE, err |-> "none", detail |-> <<>>, out |-> <<>>]

\* No response sent yet.
\* The answer of a response: the form of its text, and what the text is built
\* from (the ticker, the decimals and the % sign of the number, a row count).
Ans(form, symbol, digits, percent, n) ==
  [form |-> form, symbol |-> symbol, digits |-> digits, percent |-> percent, n |-> n,
   text |-> <<>>]
\* An answer given by its text.
AnsText(form, t) == [Ans(form, "", 0, FALSE, 0) EXCEPT !.text = t]
NoAnswer == Ans("none", "", 0, FALSE, 0)
NoResp ==
  [status |-> 0, error |-> "", msg |-> "", withSql |-> FALSE, sql |-> <<>>,
   answer |-> NoAnswer, rows |-> -1]

\* No request is in flight (the specifications of the guard and the rewriter).
NoRequest ==
  /\ hv = "query"
  /\ env = [q |-> "other", key |-> TRUE, others |-> 0]
  /\ pc = "done"
  /\ ph = ""
  /\ inUse = 0
  /\ schemaCache = FALSE
  /\ plannedSql = <<>>
  /\ safeSql = <<>>
  /\ rows = -1
  /\ log = <<>>
  /\ resp = NoResp
  /\ queue = <<>>

\* ------------------------------------------------------------ configuration

MAX_LIMIT == 500

\* lib/schema.js: the allow-list of the planner handler holds "schema.table".
\* A table name is the tuple of its dot-separated parts.
LibTables == {<<"public", "market_data">>}
\* api/query.js fetchSchema: bare lower-case table names and their columns.
ApiTables == {<<"market_data">>}
ApiCols == {"protocol", "symbol", "supply", "borrows", "available", "supply_apy",
            "borrow_apy", "utilization", "ts"}
ApiColsByTable == [t \in ApiTables |-> ApiCols]

ForbiddenWords == {"update", "insert", "delete", "drop", "alter", "truncate", "create",
                   "grant", "revoke", "copy", "vacuum", "analyze"}
SystemSchemas == {"pg_catalog", "pg_toast", "information_schema"}
allowedSrfs == {"generate_series", "unnest"}

\* ------------------------------------------------------------ lib/guard.js

\* /\blimit\s+(\d+)\b/i at position i: the position of the number, 0 when no match.
LimitAt(s, i) ==
  LET j == SkipSpaces(s, i + 1) IN
  IF /\ i \in DOMAIN s
     /\ IsWordTok(s[i]) /\ Lower(s[i].w) = "limit"
     /\ (i = 1 \/ ~IsWordTok(s[i - 1]))
     /\ j > i + 1 /\ j \in DOMAIN s /\ IsNum(s[j])
     /\ (j = Len(s) \/ ~IsWordTok(s[j + 1]))
  THEN j ELSE 0

HasLimit(s) == \E i \in DOMAIN s : LimitAt(s, i) # 0

Min(a, b) == IF a <= b THEN a ELSE b

\* Math.min(parseInt(n, 10) || maxLimit, maxLimit)
ClampValue(v, maxLimit) == Min(IF v = 0 THEN maxLimit ELSE v, maxLimit)

\* sql.replace(/\blimit\s+(\d+)\b/ig, ...) from position i on.
RECURSIVE ClampFrom(_, _, _)
ClampFrom(s, i, maxLimit) ==
  IF i > Len(s) THEN <<>>
  ELSE IF LimitAt(s, i) # 0
       THEN <<W("LIMIT"), W(" "), Num(ClampValue(s[LimitAt(s, i)].n, maxLimit))>>
              \o ClampFrom(s, LimitAt(s, i) + 1, maxLimit)
       ELSE <<s[i]>> \o ClampFrom(s, i + 1, maxLimit)

AppendLimit(s, n) == Trim(s) \o <<W("\n"), W("LIMIT"), W(" "), Num(n)>>

LibEnsureLimit(s, maxLimit) ==
  IF HasLimit(s) THEN ClampFrom(s, 1, maxLimit) ELSE AppendLimit(s, maxLimit)

\* A word made of the letter s only: what s* of /;s*$/ matches.
AllLowerS(t) == t.w \in {"s", "ss"}

\* /;s*$/.test(s)
SemiSTail(s) ==
  \E i \in DOMAIN s :
    /\ Is(s[i], ";")
    /\ \/ i = Len(s)
       \/ i = Len(s) - 1 /\ AllLowerS(s[Len(s)])

RECURSIVE DropTrailingSemis(_)
DropTrailingSemis(s) ==
  IF s # <<>> /\ Is(s[Len(s)], ";") THEN DropTrailingSemis(SubSeq(s, 1, Len(s) - 1)) ELSE s

\* s.replace(/;+\s*$/g, ''): the text is unchanged when it does not end in ;+\s*
StripTrailingSemis(s) ==
  IF TrimRight(s) # <<>> /\ Is(TrimRight(s)[Len(TrimRight(s))], ";")
  THEN DropTrailingSemis(TrimRight(s)) ELSE s

LibSingleStatement(s) ==
  IF Includes(s, ";") THEN Trim(StripTrailingSemis(s)) ELSE s

\* sUpper.startsWith('SELECT') || sUpper.startsWith('WITH')
LibPrefixOk(s) == s # <<>> /\ Lower(s[1].w) \in {"select", "with"}

\* /\b(UPDATE|...|ANALYZE)\b/i.test(s)
HasForbiddenWord(s) == \E i \in DOMAIN s : WordAt(s, i, ForbiddenWords)

\* /(--|\/\*)/.test(s)
HasComment(s) ==
  \E i \in DOMAIN s :
    /\ i < Len(s)
    /\ \/ Is(s[i], "-") /\ Is(s[i + 1], "-")
       \/ Is(s[i], "/") /\ Is(s[i + 1], "*")

\* /\b(?:pg_catalog|pg_toast|information_schema)\./i.test(s)
LibHasSystemSchema(s) ==
  \E i \in DOMAIN s :
    /\ IsWordTok(s[i]) /\ Lower(s[i].w) \in SystemSchemas
    /\ (i = 1 \/ ~IsWordTok(s[i - 1]))
    /\ i < Len(s) /\ Is(s[i + 1], ".")

\* /\b(?:from|join)\s+([a-zA-Z0-9_]+)\.([a-zA-Z0-9_]+)\b/ig at i: the end of the
\* match, 0 when no match.
LibFromAt(s, i) ==
  LET j == SkipSpaces(s, i + 1) IN
  IF /\ i \in DOMAIN s
     /\ IsWordTok(s[i]) /\ Lower(s[i].w) \in {"from", "join"}
     /\ (i = 1 \/ ~IsWordTok(s[i - 1]))
     /\ j > i + 1 /\ j + 2 <= Len(s)
     /\ IsWordTok(s[j]) /\ Is(s[j + 1], ".") /\ IsWordTok(s[j + 2])
  THEN j + 2 ELSE 0

\* The references in the order the loop finds them.
RECURSIVE extractReferencedFQTables(_, _)
extractReferencedFQTables(s, i) ==
  IF i > Len(s) THEN <<>>
  ELSE IF LibFromAt(s, i) # 0
       THEN <<<<Lower(s[LibFromAt(s, i) - 2].w), Lower(s[LibFromAt(s, i)].w)>>>>
              \o extractReferencedFQTables(s, LibFromAt(s, i) + 1)
       ELSE extractReferencedFQTables(s, i + 1)

\* The first element of refs that is not in allowed, <<>> when all are.
RECURSIVE FirstNotAllowed(_, _)
FirstNotAllowed(refs, allowed) ==
  IF refs = <<>> THEN <<>>
  ELSE IF Head(refs) \notin allowed THEN Head(refs)
       ELSE FirstNotAllowed(Tail(refs), allowed)

LibGuardChecked(s, whitelistTables, maxLimit) ==
  IF ~LibPrefixOk(s) THEN Reject("OnlySelect", <<>>)
  ELSE IF HasForbiddenWord(s) THEN Reject("WriteDDL", <<>>)
  ELSE IF HasComment(s) THEN Reject("Comment", <<>>)
  ELSE IF LibHasSystemSchema(s) THEN Reject("SystemSchema", <<>>)
  ELSE IF FirstNotAllowed(extractReferencedFQTables(s, 1), whitelistTables) # <<>>
       THEN Reject("TableNotAllowed",
                   FirstNotAllowed(extractReferencedFQTables(s, 1), whitelistTables))
  ELSE Accept(LibEnsureLimit(s, maxLimit))

\* guardSql of lib/guard.js; the third argument is not read by the code.
LibGuardSql(text, whitelistTables, whitelistColsByTable, maxLimit) ==
  IF Trim(text) = <<>> THEN Reject("Empty", <<>>)
  ELSE IF Includes(Trim(text), ";") /\ ~SemiSTail(Trim(text))
       THEN Reject("MultiStatement", <<>>)
  ELSE LibGuardChecked(LibSingleStatement(Trim(text)), whitelistTables, maxLimit)

\* ------------------------------------------------------------ api/query.js

\* ensureLimit of api/query.js: an existing LIMIT is kept as it is.
ApiEnsureLimit(s, n) == IF HasLimit(s) THEN s ELSE AppendLimit(s, n)

\* The end of the match of /'(?:''|[^'])*'/ whose opening quote is before j:
\* the closing quote the greedy match settles on, given that `last` is the last
\* quote it can fall back to (0: none).
RECURSIVE LitWalk(_, _, _)
LitWalk(s, j, last) ==
  IF j > Len(s) THEN last
  ELSE IF ~Is(s[j], "'") THEN LitWalk(s, j + 1, last)
  ELSE IF j < Len(s) /\ Is(s[j + 1], "'") THEN LitWalk(s, j + 2, j)
  ELSE j
LitEnd(s, i) == IF i \in DOMAIN s /\ Is(s[i], "'") THEN LitWalk(s, i + 1, 0) ELSE 0

Spaces(k) == [i \in 1..k |-> W(" ")]

\* text.replace(/'(?:''|[^'])*'/g, (m) => ' '.repeat(m.length)) from position i on.
RECURSIVE stripStrings(_, _)
stripStrings(s, i) ==
  IF i > Len(s) THEN <<>>
  ELSE IF LitEnd(s, i) # 0
       THEN Spaces(LitEnd(s, i) - i + 1) \o stripStrings(s, LitEnd(s, i) + 1)
       ELSE <<s[i]>> \o stripStrings(s, i + 1)

\* if (s.endsWith(';')) s = s.slice(0, -1).trim()
ApiStripSemi(s) ==
  IF s # <<>> /\ Is(s[Len(s)], ";") THEN Trim(SubSeq(s, 1, Len(s) - 1)) ELSE s

\* /^\s*(select|with)\b/i.test(sNoStrings)
ApiPrefixOk(m) == WordAt(m, SkipSpaces(m, 1), {"select", "with"})

\* t.replace(/^public\./i, '').toLowerCase() on a name of one or two parts.
normalizeTable(raw) ==
  IF Len(raw) = 2 /\ Lower(raw[1]) = "public" THEN <<Lower(raw[2])>>
  ELSE [i \in DOMAIN raw |-> Lower(raw[i])]

\* /\)\s+([a-z_][a-z0-9_]*)/gi at i: the position of the alias, 0 when no match.
AliasAt(m, i) ==
  LET j == SkipSpaces(m, i + 1) IN
  IF i \in DOMAIN m /\ Is(m[i], ")") /\ j > i + 1 /\ j \in DOMAIN m /\ IsIdent(m[j])
  THEN j ELSE 0

RECURSIVE AliasScan(_, _)
AliasScan(m, i) ==
  IF i > Len(m) THEN {}
  ELSE IF AliasAt(m, i) # 0
       THEN {Lower(m[AliasAt(m, i)].w)} \cup AliasScan(m, AliasAt(m, i) + 1)
       ELSE AliasScan(m, i + 1)

\* The first ")" at or after i (Len(m) + 1 when none).
RECURSIVE NextClose(_, _)
NextClose(m, i) ==
  IF i \in DOMAIN m /\ ~Is(m[i], ")") THEN NextClose(m, i + 1) ELSE i

\* \s+as\s*\( from position i on: the position of the "(", 0 when no match.
AsOpenAt(m, i) ==
  LET b == SkipSpaces(m, i)
      c == SkipSpaces(m, b + 1) IN
  IF /\ b > i /\ b \in DOMAIN m /\ IsWordTok(m[b]) /\ Lower(m[b].w) = "as"
     /\ c \in DOMAIN m /\ Is(m[c], "(")
  THEN c ELSE 0

\* \s*([a-z_][a-z0-9_]*)\s*(?:\([^)]+\))?\s+as\s*\( from position p on: the
\* position of the last "(", 0 when no match.
CteEnd(m, p) ==
  LET a == SkipSpaces(m, p)
      b == SkipSpaces(m, a + 1)
      d == NextClose(m, b + 1) IN
  IF ~(a \in DOMAIN m /\ IsIdent(m[a])) THEN 0
  ELSE IF b \in DOMAIN m /\ Is(m[b], "(") /\ d \in DOMAIN m /\ d > b + 1
            /\ AsOpenAt(m, d + 1) # 0
       THEN AsOpenAt(m, d + 1)
  ELSE AsOpenAt(m, a + 1)

\* The position after the anchor (?:^|\bwith|,) of a match of cteRegex that
\* starts at i, 0 when none starts there.
CteStart(m, i) ==
  IF i = 1 /\ CteEnd(m, 1) # 0 THEN 1
  ELSE IF /\ i \in DOMAIN m
          /\ \/ Is(m[i], ",")
             \/ /\ IsWordTok(m[i]) /\ Lower(m[i].w) = "with"
                /\ (i = 1 \/ ~IsWordTok(m[i - 1]))
          /\ CteEnd(m, i + 1) # 0
       THEN i + 1
  ELSE 0

RECURSIVE CteScan(_, _)
CteScan(m, i) ==
  IF i > Len(m) THEN {}
  ELSE IF CteStart(m, i) # 0
       THEN {Lower(m[SkipSpaces(m, CteStart(m, i))].w)}
              \cup CteScan(m, CteEnd(m, CteStart(m, i)) + 1)
       ELSE CteScan(m, i + 1)

aliasSet(m) == AliasScan(m, 1) \cup CteScan(m, 1)

\* The second group of fromJoinRegex, (\s*\(|\s|$), after position e.
TailKind(m, e) ==
  IF SkipSpaces(m, e + 1) \in DOMAIN m /\ Is(m[SkipSpaces(m, e + 1)], "(") THEN "func"
  ELSE IF e + 1 \in DOMAIN m /\ IsSpace(m[e + 1]) THEN "space"
  ELSE IF e = Len(m) THEN "end"
  ELSE "none"

\* fromJoinRegex at i: [hit, raw, func, end].  The dotted form is tried first and
\* given up when nothing of the second group follows it.
FromAt(m, i) ==
  LET j == SkipSpaces(m, i + 1)
      k == SkipSpaces(m, j + 1)
      l == SkipSpaces(m, k + 1)
      none == [hit |-> FALSE, raw |-> <<>>, func |-> FALSE, end |-> 0]
      EndOf(e) == CASE TailKind(m, e) = "func" -> SkipSpaces(m, e + 1)
                    [] TailKind(m, e) = "space" -> e + 1
                    [] OTHER -> e
  IN
  IF ~(/\ i \in DOMAIN m
       /\ IsWordTok(m[i]) /\ Lower(m[i].w) \in {"from", "join"}
       /\ (i = 1 \/ ~IsWordTok(m[i - 1]))
       /\ j > i + 1 /\ j \in DOMAIN m /\ IsIdent(m[j]))
  THEN none
  ELSE IF /\ k \in DOMAIN m /\ Is(m[k], ".") /\ l \in DOMAIN m /\ IsIdent(m[l])
          /\ TailKind(m, l) # "none"
       THEN [hit |-> TRUE, raw |-> <<m[j].w, m[l].w>>,
             func |-> TailKind(m, l) = "func", end |-> EndOf(l)]
  ELSE IF TailKind(m, j) # "none"
       THEN [hit |-> TRUE, raw |-> <<m[j].w>>,
             func |-> TailKind(m, j) = "func", end |-> EndOf(j)]
  ELSE none

\* The candidates of the FROM/JOIN loop, in the order they are added.
RECURSIVE FromScan(_, _, _)
FromScan(m, i, aliases) ==
  IF i > Len(m) THEN <<>>
  ELSE IF FromAt(m, i).hit
       THEN (IF FromAt(m, i).func /\ Lower(FromAt(m, i).raw[1]) \in allowedSrfs
             THEN <<>>
             ELSE IF /\ Len(normalizeTable(FromAt(m, i).raw)) = 1
                     /\ normalizeTable(FromAt(m, i).raw)[1] \in aliases
                  THEN <<>>
             ELSE <<normalizeTable(FromAt(m, i).raw)>>)
            \o FromScan(m, FromAt(m, i).end + 1, aliases)
       ELSE FromScan(m, i + 1, aliases)

\* \s*\.\s*[a-z_][a-z0-9_]* after position e: the position of the identifier,
\* 0 when no match.
DotIdentAfter(m, e) ==
  LET k == SkipSpaces(m, e + 1)
      l == SkipSpaces(m, k + 1) IN
  IF k \in DOMAIN m /\ Is(m[k], ".") /\ l \in DOMAIN m /\ IsIdent(m[l]) THEN l ELSE 0

IdentStartsAt(m, i) ==
  i \in DOMAIN m /\ IsIdent(m[i]) /\ (i = 1 \/ ~IsWordTok(m[i - 1]))

\* qualColRegex at i: the end of the match, 0 when no match.
QualEnd(m, i) ==
  IF ~IdentStartsAt(m, i) \/ DotIdentAfter(m, i) = 0 THEN 0
  ELSE IF DotIdentAfter(m, DotIdentAfter(m, i)) # 0
       THEN DotIdentAfter(m, DotIdentAfter(m, i))
  ELSE DotIdentAfter(m, i)

\* The candidates of the qualified-column loop: a match of three parts a.b.c
\* adds normalizeTable("a.b").
RECURSIVE QualScan(_, _, _)
QualScan(m, i, aliases) ==
  IF i > Len(m) THEN <<>>
  ELSE IF QualEnd(m, i) # 0
       THEN (IF DotIdentAfter(m, DotIdentAfter(m, i)) = 0 THEN <<>>
             ELSE IF /\ Len(normalizeTable(<<m[i].w, m[DotIdentAfter(m, i)].w>>)) = 1
                     /\ normalizeTable(<<m[i].w, m[DotIdentAfter(m, i)].w>>)[1] \in aliases
                  THEN <<>>
             ELSE <<normalizeTable(<<m[i].w, m[DotIdentAfter(m, i)].w>>)>>)
            \o QualScan(m, QualEnd(m, i) + 1, aliases)
       ELSE QualScan(m, i + 1, aliases)

tableCandidates(m) == FromScan(m, 1, aliasSet(m)) \o QualScan(m, 1, aliasSet(m))

\* The lower-cased characters of m[a..b] as one string part.
Part(m, a, b) == [i \in 1..(b - a + 1) |-> Lower(m[a + i - 1].w)]

\* The fully-qualified column regex at i: [hit, tbl, col, end]; tbl and col are
\* the parts ref.split('.') gives, white space included.
FqColAt(m, i) ==
  LET none == [hit |-> FALSE, tbl |-> <<>>, col |-> <<>>, end |-> 0]
      three == IF i + 2 \in DOMAIN m /\ Is(m[i + 1], ".") /\ IsIdent(m[i + 2])
               THEN DotIdentAfter(m, i + 2) ELSE 0
      two == DotIdentAfter(m, i)
      dot2 == SkipSpaces(m, i + 1)
      dot3 == SkipSpaces(m, i + 3)
  IN
  IF ~IdentStartsAt(m, i) THEN none
  ELSE IF three # 0
       THEN [hit |-> TRUE, tbl |-> Part(m, i + 2, dot3 - 1),
             col |-> Part(m, dot3 + 1, three), end |-> three]
  ELSE IF two # 0
       THEN [hit |-> TRUE, tbl |-> Part(m, i, dot2 - 1),
             col |-> Part(m, dot2 + 1, two), end |-> two]
  ELSE none

\* The first reference the column loop throws on: <<>> when it throws on none.
RECURSIVE FirstBadColumn(_, _, _, _)
FirstBadColumn(m, i, aliases, whitelistColsByTable) ==
  IF i > Len(m) THEN <<>>
  ELSE IF FqColAt(m, i).hit
       THEN (IF /\ ~(Len(FqColAt(m, i).tbl) = 1 /\ FqColAt(m, i).tbl[1] \in allowedSrfs)
                /\ ~(Len(FqColAt(m, i).tbl) = 1 /\ FqColAt(m, i).tbl[1] \in aliases)
                /\ FqColAt(m, i).tbl \in DOMAIN whitelistColsByTable
                /\ ~(/\ Len(FqColAt(m, i).col) = 1
                     /\ FqColAt(m, i).col[1] \in whitelistColsByTable[FqColAt(m, i).tbl])
             THEN FqColAt(m, i).tbl \o <<".">> \o FqColAt(m, i).col
             ELSE FirstBadColumn(m, FqColAt(m, i).end + 1, aliases, whitelistColsByTable))
       ELSE FirstBadColumn(m, i + 1, aliases, whitelistColsByTable)

\* The forbidden-word test without the i flag: lower-case spellings only.
ApiForbiddenCaseSensitive(m) ==
  \E i \in DOMAIN m :
    /\ m[i].w \in ForbiddenWords
    /\ (i = 1 \/ ~IsWordTok(m[i - 1]))
    /\ (i = Len(m) \/ ~IsWordTok(m[i + 1]))

\* if (forbidden.test(sNoStrings)) throw ...
ApiForbidden(m) == HasForbiddenWord(m)

ApiGuardChecked(s, m, whitelistTables, whitelistColsByTable) ==
  IF ~ApiPrefixOk(m) THEN Reject("OnlySelect", <<>>)
  ELSE IF Includes(m, ";") THEN Reject("MultiStatement", <<>>)
  ELSE IF ApiForbidden(m) THEN Reject("WriteDDL", <<>>)
  ELSE IF HasComment(m) THEN Reject("Comment", <<>>)
  ELSE IF FirstNotAllowed(tableCandidates(m), whitelistTables) # <<>>
       THEN Reject("TableNotAllowed", FirstNotAllowed(tableCandidates(m), whitelistTables))
  ELSE IF FirstBadColumn(m, 1, aliasSet(m), whitelistColsByTable) # <<>>
       THEN Reject("ColumnNotAllowed", FirstBadColumn(m, 1, aliasSet(m), whitelistColsByTable))
  ELSE Accept(ApiEnsureLimit(s, MAX_LIMIT))

\* guardSql of api/query.js
ApiGuardSql(text, whitelistTables, whitelistColsByTable) ==
  ApiGuardChecked(ApiStripSemi(Trim(text)), stripStrings(ApiStripSemi(Trim(text)), 1),
                  whitelistTables, whitelistColsByTable)

\* ------------------------------------------------------------ candidate SQL

\* How many slots of a candidate may differ from the plain statement
\* SELECT * FROM public.market_data, and how far above MAX_LIMIT a LIMIT goes.
MaxDeviations == 2
MaxOver == 1

SP == <<W(" ")>>

Heads == {"cte", "cte_cols", "cte2"}
CteNames == {"hourly", "secret"}
BodyTables == {"md", "public.md", "secret", "public.secret"}
Items == {"*", "lit_a", "lit_inject", "lit_b", "lit_limit", "lit_esc", "lit_open",
          "lit_open_esc", "lit_drop", "drop", "Drop",
          "alias_secret", "alias_pg_sleep", "col_ok", "col_bad", "col_bad_fq",
          "col_bad_sp", "sysfunc"}
Targets == {"none", "md", "public.md", "secret", "public.secret", "Secret",
            "generate_series", "unnest", "pg_sleep", "cte", "pg_class",
            "sub_secret", "sub_limit", "join_secret"}
Terms == {"none", "semi", "semi_sp", "multi", "semi_s", "drop_tail"}
LimitNs == {0, 1, MAX_LIMIT - 1} \cup (MAX_LIMIT..(MAX_LIMIT + MaxOver))

TableText(k) ==
  CASE k = "md" -> Toks(<<"market_data">>)
    [] k = "public.md" -> Toks(<<"public", ".", "market_data">>)
    [] k = "secret" -> Toks(<<"secret">>)
    [] k = "Secret" -> Toks(<<"Secret">>)
    [] k = "public.secret" -> Toks(<<"public", ".", "secret">>)
    [] k = "pg_class" -> Toks(<<"pg_catalog", ".", "pg_class">>)

\* The table a written table name denotes (unquoted names fold to lower case).
TableOf(k) ==
  CASE k \in {"md", "public.md"} -> "market_data"
    [] k \in {"secret", "Secret", "public.secret"} -> "secret"
    [] k = "pg_class" -> "pg_class"

HeadText(c) ==
  CASE c.head = "none" -> Toks(<<"SELECT">>)
    [] c.head = "cte" ->
         Toks(<<"WITH", " ", c.cname, " ", "AS", " ", "(", "SELECT", " ", "*", " ",
                "FROM", " ">>) \o TableText(c.cbody) \o Toks(<<")", " ", "SELECT">>)
    [] c.head = "cte_cols" ->
         Toks(<<"WITH", " ", c.cname, " ", "(", "a", ",", " ", "b", ")", " ", "AS", " ",
                "(", "SELECT", " ", "ts", ",", " ", "symbol", " ", "FROM", " ">>)
           \o TableText(c.cbody) \o Toks(<<")", " ", "SELECT">>)
    [] c.head = "cte2" ->
         Toks(<<"WITH", " ", "first", " ", "AS", " ", "(", "SELECT", " ", "*", " ",
                "FROM", " ", "public", ".", "market_data", ")", ",", " ", c.cname, " ",
                "AS", " ", "(", "SELECT", " ", "*", " ", "FROM", " ">>)
           \o TableText(c.cbody) \o Toks(<<")", " ", "SELECT">>)

LitText(k) ==
  CASE k = "lit_a" -> Toks(<<"'", "aaaaaaaaaaaaaaaaaa", "'">>)
    [] k = "lit_inject" ->
         Toks(<<"'", ";", " ", "DROP", " ", "TABLE", " ", "t", ";", " ", "-", "-", "'">>)
    [] k = "lit_b" -> Toks(<<"'", "bbbbbbb", "'">>)
    [] k = "lit_limit" -> <<W("'"), W("limit"), W(" "), Num(5), W("'")>>
    [] k = "lit_esc" -> Toks(<<"'", "i", "'", "'", "drop", "'">>)

\* A literal that is never closed: the rest of the text is inside it.
OpenLitText(k) ==
  CASE k = "lit_open" -> Toks(<<"'", "abc", " ", "drop">>)
    [] k = "lit_open_esc" -> Toks(<<"'", "a", "'", "'", "drop">>)

Lits == {"lit_a", "lit_inject", "lit_b", "lit_limit", "lit_esc"}
\* The number of characters between the quotes.
LitChars(k) == IF k \in {"lit_a", "lit_inject"} THEN 18 ELSE 7

ItemText(k) ==
  CASE k = "*" -> Toks(<<"*">>)
    [] k \in Lits -> LitText(k)
    [] k \in {"lit_open", "lit_open_esc"} -> OpenLitText(k)
    [] k = "lit_drop" -> Toks(<<"'", "a", "'", "DROP">>)
    [] k = "drop" -> Toks(<<"drop">>)
    [] k = "Drop" -> Toks(<<"Drop">>)
    [] k = "alias_secret" -> <<W("("), Num(1), W(")"), W(" "), W("secret")>>
    [] k = "alias_pg_sleep" -> <<W("("), Num(1), W(")"), W(" "), W("pg_sleep")>>
    [] k = "col_ok" -> Toks(<<"market_data", ".", "ts">>)
    [] k = "col_bad" -> Toks(<<"market_data", ".", "password">>)
    [] k = "col_bad_fq" -> Toks(<<"public", ".", "market_data", ".", "password">>)
    [] k = "col_bad_sp" -> Toks(<<"market_data", " ", ".", " ", "password">>)
    [] k = "sysfunc" ->
         <<W("pg_catalog"), W("."), W("pg_sleep"), W("("), Num(1), W(")")>>

TargetText(c) ==
  CASE c.target \in {"md", "public.md", "secret", "public.secret", "Secret", "pg_class"} ->
         TableText(c.target)
    [] c.target = "generate_series" ->
         <<W("generate_series"), W("("), Num(1), W(","), W(" "), Num(10), W(")")>>
    [] c.target = "unnest" -> Toks(<<"unnest", " ", "(", "x", ")">>)
    [] c.target = "pg_sleep" -> <<W("pg_sleep"), W("("), Num(5), W(")")>>
    [] c.target = "cte" -> Toks(<<c.cname>>)
    [] c.target = "sub_secret" ->
         Toks(<<"(", "SELECT", " ", "*", " ", "FROM", " ", "secret", ")", " ", "d">>)
    [] c.target = "sub_limit" ->
         Toks(<<"(", "SELECT", " ", "*", " ", "FROM", " ", "public", ".", "market_data",
                " ", "LIMIT", " ">>) \o <<Num(MAX_LIMIT + 1)>> \o Toks(<<")", " ", "d">>)
    [] c.target = "join_secret" ->
         Toks(<<"public", ".", "market_data", " ", "JOIN", " ", "secret", " ", "ON", " ">>)
           \o <<Num(1), W("="), Num(1)>>

TermText(k) ==
  CASE k = "none" -> <<>>
    [] k = "semi" -> Toks(<<";">>)
    [] k = "semi_sp" -> Toks(<<";", " ">>)
    [] k = "multi" -> <<W(";"), W(" "), W("SELECT"), W(" "), Num(2), W(";")>>
    [] k = "semi_s" -> Toks(<<";", "s">>)
    [] k = "drop_tail" -> Toks(<<";", " ", "DROP", " ", "TABLE", " ", "t">>)

\* The text of a candidate statement.
Text(c) ==
  HeadText(c) \o SP \o ItemText(c.item)
    \o (IF c.target = "none" THEN <<>> ELSE SP \o Toks(<<"FROM">>) \o SP \o TargetText(c))
    \o (IF c.limit < 0 THEN <<>> ELSE SP \o <<W("LIMIT"), W(" "), Num(c.limit)>>)
    \o TermText(c.term)

Deviations(c) ==
  (IF c.head = "none" THEN 0 ELSE 1) + (IF c.item = "*" THEN 0 ELSE 1)
    + (IF c.target = "public.md" THEN 0 ELSE 1) + (IF c.limit < 0 THEN 0 ELSE 1)
    + (IF c.term = "none" THEN 0 ELSE 1)

Candidates ==
  {c \in [head : Heads \cup {"none"}, cname : CteNames, cbody : BodyTables,
          item : Items, target : Targets, limit : LimitNs \cup {-1}, term : Terms] :
     /\ Deviations(c) <= MaxDeviations
     /\ c.head = "none" => (c.cname = "hourly" /\ c.cbody = "public.md" /\ c.target # "cte")}

\* ------------------------------------------------------------ specification

LibColsByTable == [t \in LibTables |-> ApiCols]

GuardInit ==
  /\ cand \in Candidates
  /\ sql = Text(cand)
  /\ op = "idle"
  /\ res = NoResult
  /\ question = <<>>
  /\ NoRequest

\* part_002 handler: guardSql(plannedSql, tables, colsByTable, MAX_LIMIT)
LibGuard ==
  /\ op = "idle"
  /\ op' = "libGuard"
  /\ res' = LibGuardSql(sql, LibTables, LibColsByTable, MAX_LIMIT)
  /\ UNCHANGED <<cand, sql, question, hvars>>

\* api/query.js handler: guardSql(sql, tables, colsByTable)
ApiGuard ==
  /\ op = "idle"
  /\ op' = "apiGuard"
  /\ res' = ApiGuardSql(sql, ApiTables, ApiColsByTable)
  /\ UNCHANGED <<cand, sql, question, hvars>>

\* ensureLimit of lib/guard.js applied to the text as it is
LibLimit ==
  /\ op = "idle"
  /\ op' = "libLimit"
  /\ res' = Accept(LibEnsureLimit(sql, MAX_LIMIT))
  /\ UNCHANGED <<cand, sql, question, hvars>>

GuardNext == LibGuard \/ ApiGuard \/ LibLimit

GuardSpec == GuardInit /\ [][GuardNext]_vars

\* ------------------------------------------------------------ properties

Guarded == op \in {"libGuard", "apiGuard"}

\* The positions >= i of a text that lie outside single-quoted literals, read as
\* SQL reads it: a quote opens a literal, '' inside it is an escaped quote, the
\* next single quote closes it; a literal that is never closed runs to the end.
RECURSIVE Outside(_, _, _)
Outside(s, i, inLit) ==
  IF i > Len(s) THEN {}
  ELSE IF ~inLit
       THEN (IF Is(s[i], "'") THEN Outside(s, i + 1, TRUE)
             ELSE {i} \cup Outside(s, i + 1, FALSE))
  ELSE IF ~Is(s[i], "'") THEN Outside(s, i + 1, TRUE)
  ELSE IF i < Len(s) /\ Is(s[i + 1], "'") THEN Outside(s, i + 2, TRUE)
  ELSE Outside(s, i + 1, FALSE)

WriteKeywords == {"update", "insert", "delete", "drop", "alter", "truncate", "create",
                  "grant", "revoke", "copy", "vacuum", "analyze"}

WholeWordOutside(s, ws) ==
  \E i \in Outside(s, 1, FALSE) :
    /\ IsWordTok(s[i]) /\ Lower(s[i].w) \in ws
    /\ (i = 1 \/ ~IsWordTok(s[i - 1]))
    /\ (i = Len(s) \/ ~IsWordTok(s[i + 1]))

\* The slots other than the named ones are those of the plain statement.
PlainItem == cand.item = "*"
PlainTail == cand.limit < 0 /\ cand.term = "none"

\* The real tables a candidate reads after FROM or JOIN.  A bare name that is
\* the name of a CTE of the statement denotes the CTE in the main query, and
\* the table in the body of the CTE; function calls read no table.
CteShadows(c, name) == c.head # "none" /\ c.cname = name
TargetReads(c) ==
  CASE c.target \in {"md"} -> IF CteShadows(c, "market_data") THEN {} ELSE {"market_data"}
    [] c.target \in {"secret", "Secret"} -> IF CteShadows(c, "secret") THEN {} ELSE {"secret"}
    [] c.target \in {"public.md", "sub_limit"} -> {"market_data"}
    [] c.target \in {"public.secret", "sub_secret"} -> {"secret"}
    [] c.target = "pg_class" -> {"pg_class"}
    [] c.target = "join_secret" ->
         {"market_data"} \cup (IF CteShadows(c, "secret") THEN {} ELSE {"secret"})
    [] OTHER -> {}
ReadsTables(c) ==
  TargetReads(c)
    \cup (IF c.head = "none" THEN {} ELSE {TableOf(c.cbody)})
    \cup (IF c.head = "cte2" THEN {"market_data"} ELSE {})
DeclaredTables == {"market_data"}

\* C1 (single statement): every text a guard returns has no ';' outside
\* single-quoted literals.
C1_NoSemicolonReturned ==
  (Guarded /\ res.ok) => \A i \in Outside(res.out, 1, FALSE) : ~Is(res.out[i], ";")

\* C2 (table allow-list): every statement a guard accepts reads, after FROM or
\* JOIN, declared tables only.
C2_OnlyDeclaredTablesAccepted ==
  (Guarded /\ res.ok) => ReadsTables(cand) \subseteq DeclaredTables

\* C3 (read-only): a text with a write/DDL/admin keyword as a whole word outside
\* a literal is rejected by both guards, and no text a guard returns has one.
C3_ReadOnly ==
  Guarded =>
    /\ WholeWordOutside(sql, WriteKeywords) => ~res.ok
    /\ res.ok => ~WholeWordOutside(res.out, WriteKeywords)

\* C3 witness: the guard of api/query.js has rejected, as write/DDL, a text
\* whose only offence is a keyword outside a literal, in upper or mixed case.
C3_Witness ==
  /\ op = "apiGuard" /\ cand.item = "Drop" /\ cand.term = "none"
  /\ WholeWordOutside(sql, WriteKeywords)
  /\ ~res.ok /\ res.err = "WriteDDL"

BadColumnItems == {"col_bad", "col_bad_fq", "col_bad_sp"}

\* C4 (column allow-list): a statement with a qualified reference to a column
\* that the declared table market_data does not have is rejected by both guards.
C4_UndeclaredColumnRejected ==
  (Guarded /\ cand.item \in BadColumnItems) => ~res.ok

Verdict(r) == [ok |-> r.ok, err |-> r.err, detail |-> r.detail]
GuardOf(o, text) ==
  IF o = "libGuard" THEN LibGuardSql(text, LibTables, LibColsByTable, MAX_LIMIT)
  ELSE ApiGuardSql(text, ApiTables, ApiColsByTable)

\* C5 (literal insensitivity): replacing the content of a literal by another
\* content of the same length that holds no quote changes neither the decision
\* of a guard nor the error it raises.
C5_LiteralInsensitive ==
  (Guarded /\ cand.item \in Lits) =>
    \A k \in Lits \ {"lit_esc"} :
      LitChars(k) = LitChars(cand.item) =>
        Verdict(GuardOf(op, Text([cand EXCEPT !.item = k]))) = Verdict(res)

\* The LIMIT n clauses of a text: the positions of the numbers.
LimitClauses(s) == {LimitAt(s, i) : i \in Outside(s, 1, FALSE)} \ {0}

\* C6 (LIMIT presence and bound): every text a guard returns has exactly one
\* LIMIT n clause, and its n is at most MAX_LIMIT.
C6_OneBoundedLimit ==
  (Guarded /\ res.ok) =>
    /\ Cardinality(LimitClauses(res.out)) = 1
    /\ \A j \in LimitClauses(res.out) : res.out[j].n <= MAX_LIMIT

\* The numbers of the LIMIT n matches of a text from position i on, in order.
RECURSIVE LimitValues(_, _)
LimitValues(s, i) ==
  IF i > Len(s) THEN <<>>
  ELSE IF LimitAt(s, i) # 0
       THEN <<s[LimitAt(s, i)].n>> \o LimitValues(s, LimitAt(s, i) + 1)
       ELSE LimitValues(s, i + 1)

\* C7 (clamping value): ensureLimit of lib/guard.js turns each LIMIT n into
\* LIMIT min(n, maxLimit), and appends a new line and LIMIT maxLimit to the
\* trimmed text when there is no LIMIT.
C7_ClampIsMin ==
  op = "libLimit" =>
    IF HasLimit(sql)
    THEN LimitValues(res.out, 1)
           = [i \in DOMAIN LimitValues(sql, 1) |-> Min(LimitValues(sql, 1)[i], MAX_LIMIT)]
    ELSE res.out = Trim(sql) \o <<W("\n"), W("LIMIT"), W(" "), Num(MAX_LIMIT)>>

SystemSchemaNames == {"pg_catalog", "pg_toast", "information_schema"}

\* C8 (system schemas): a text that names pg_catalog, pg_toast or
\* information_schema outside a literal is rejected by both guards.
C8_SystemSchemaRejected ==
  (Guarded /\ WholeWordOutside(sql, SystemSchemaNames)) => ~res.ok

\* C9 (functions in FROM): a function call after FROM is accepted when it is
\* generate_series or unnest and rejected when it is another function.
C9_OnlySrfCallsAccepted ==
  Guarded =>
    /\ cand.target = "pg_sleep" => ~res.ok
    /\ (cand.target \in {"generate_series", "unnest"} /\ cand.head = "none"
          /\ PlainItem /\ PlainTail) => res.ok

\* C10 (CTE names are exempt): WITH c AS (SELECT ... FROM T) SELECT * FROM c is
\* accepted when T is declared, and an accepted statement of this form reads a
\* declared table in the body of the CTE.
C10_CteExemptBodyChecked ==
  (Guarded /\ cand.head # "none" /\ cand.target = "cte" /\ PlainItem /\ PlainTail) =>
    /\ cand.cbody = "public.md" => res.ok
    /\ res.ok => TableOf(cand.cbody) \in DeclaredTables

\* ------------------------------------------- api/query.js: tweakSqlHeuristics

\* The least element of a non-empty set of positions: the leftmost match.
MinOf(S) == CHOOSE x \in S : \A y \in S : x <= y

\* A run of digits with z leading zeros before the decimal form of v ("0150").
Digits(v, z) == IF z = 0 THEN Num(v) ELSE [w |-> "#", n |-> v, z |-> z]
LeadZeros(t) == IF "z" \in DOMAIN t THEN t.z ELSE 0
NDigits(v) == IF v < 10 THEN 1 ELSE IF v < 100 THEN 2 ELSE IF v < 1000 THEN 3 ELSE 4
Pow10(k) == IF k = 0 THEN 1 ELSE IF k = 1 THEN 10 ELSE IF k = 2 THEN 100 ELSE 1000

\* (\d+(\.\d+)?) whose first digit run is at l: the position of its last lexeme.
NumEnd(s, l) ==
  IF l + 2 <= Len(s) /\ Is(s[l + 1], ".") /\ IsNum(s[l + 2]) THEN l + 2 ELSE l

\* parseFloat(num) in units of 1/10000 (the texts carry at most four decimals).
Scaled(s, l) ==
  s[l].n * 10000
    + (IF NumEnd(s, l) = l
       THEN 0
       ELSE s[l + 2].n * Pow10(4 - (LeadZeros(s[l + 2]) + NDigits(s[l + 2].n))))

\* (n / 100).toFixed(4) for n given in units of 1/10000.
ToFixed4(v) ==
  LET r == (v + 50) \div 100 IN
  <<Num(r \div 10000), W("."), Digits(r % 10000, 4 - NDigits(r % 10000))>>

\* /(utilization\s*[<>]=?\s*)(\d+(\.\d+)?)/i at position i: the position of the
\* number, 0 when no match.
PctNumAt(s, i) ==
  LET j == SkipSpaces(s, i + 1)
      k == IF j < Len(s) /\ Is(s[j + 1], "=") THEN j + 2 ELSE j + 1
      l == SkipSpaces(s, k) IN
  IF /\ i \in DOMAIN s /\ IsIdent(s[i]) /\ Lower(s[i].w) = "utilization"
     /\ j \in DOMAIN s /\ s[j].w \in {"<", ">"}
     /\ l \in DOMAIN s /\ IsNum(s[l])
  THEN l ELSE 0

\* s.replace(/(utilization\s*[<>]=?\s*)(\d+(\.\d+)?)/ig, ...) from position i on:
\* n >= 1 becomes (n / 100).toFixed(4).
RECURSIVE PctScan(_, _)
PctScan(s, i) ==
  LET ms == {k \in i..Len(s) : PctNumAt(s, k) # 0} IN
  IF ms = {} THEN SubSeq(s, i, Len(s))
  ELSE LET k == MinOf(ms)
           l == PctNumAt(s, k) IN
       SubSeq(s, i, k - 1)
         \o (IF Scaled(s, l) >= 10000
             THEN SubSeq(s, k, l - 1) \o ToFixed4(Scaled(s, l))
             ELSE SubSeq(s, k, NumEnd(s, l)))
         \o PctScan(s, NumEnd(s, l) + 1)

\* /\b(consecutive|streak|hours?)\b/i.test(question)
QuestionStreak(q) ==
  \E i \in DOMAIN q : WordAt(q, i, {"consecutive", "streak", "hour", "hours"})

\* /date_trunc\s*\(\s*'hour'/i.test(s)
HasDateTruncHour(s) ==
  \E i \in DOMAIN s :
    LET j == SkipSpaces(s, i + 1)
        k == SkipSpaces(s, j + 1) IN
    /\ IsIdent(s[i]) /\ Lower(s[i].w) = "date_trunc"
    /\ j \in DOMAIN s /\ Is(s[j], "(")
    /\ k + 2 <= Len(s) /\ Is(s[k], "'") /\ Lower(s[k + 1].w) = "hour" /\ Is(s[k + 2], "'")

\* /from\s+public\.market_data\b/i at position i: the position of its last lexeme,
\* 0 when no match.
FromPmdAt(s, i) ==
  LET j == SkipSpaces(s, i + 1) IN
  IF /\ i \in DOMAIN s /\ IsIdent(s[i]) /\ Lower(s[i].w) = "from"
     /\ j > i + 1 /\ j + 2 <= Len(s)
     /\ Lower(s[j].w) = "public" /\ Is(s[j + 1], ".") /\ Lower(s[j + 2].w) = "market_data"
  THEN j + 2 ELSE 0

\* /utilization\b/i.test(s)
HasUtilization(s) == \E i \in DOMAIN s : IsIdent(s[i]) /\ Lower(s[i].w) = "utilization"

HourlyWrap ==
  Toks(<<"FROM", " ", "(", "\n", " ", " ", "SELECT", " ", "date_trunc", "(", "'", "hour",
         "'", ",", " ", "ts", ")", " ", "AS", " ", "hour", ",", " ", "AVG", "(",
         "utilization", ")", " ", "AS", " ", "utilization", ",", "\n">>)
    \o Spaces(9)
    \o Toks(<<"protocol", ",", " ", "symbol", "\n", " ", " ", "FROM", " ", "public", ".",
              "market_data", "\n", " ", " ", "WHERE", " ", "protocol", "=", "'", "aave",
              "'", "\n", " ", " ", "GROUP", " ", "BY", " ">>)
    \o <<Num(1)>>
    \o Toks(<<",", " ", "protocol", ",", " ", "symbol", "\n", ")", " ", "h">>)

\* s.replace(/from\s+public\.market_data\b/i, HourlyWrap): the first match only.
WrapFirst(s) ==
  LET ms == {k \in DOMAIN s : FromPmdAt(s, k) # 0} IN
  IF ms = {} THEN s
  ELSE SubSeq(s, 1, MinOf(ms) - 1) \o HourlyWrap
         \o SubSeq(s, FromPmdAt(s, MinOf(ms)) + 1, Len(s))

\* s.replace(/\bts\b/gi, 'hour')
ReplaceTs(s) == [i \in DOMAIN s |-> IF WordAt(s, i, {"ts"}) THEN W("hour") ELSE s[i]]

\* Lines 70-78: the hourly pre-aggregation.
HourlyPreAgg(s, q) ==
  IF /\ QuestionStreak(q) /\ ~HasDateTruncHour(s)
     /\ (\E i \in DOMAIN s : FromPmdAt(s, i) # 0) /\ HasUtilization(s)
  THEN ReplaceTs(WrapFirst(s))
  ELSE s

\* /\bat\s+least\s+24\b/i.test(question)
QuestionAtLeast24(q) ==
  \E i \in DOMAIN q :
    LET j == SkipSpaces(q, i + 1)
        k == SkipSpaces(q, j + 1) IN
    /\ WordAt(q, i, {"at"})
    /\ j > i + 1 /\ WordAt(q, j, {"least"})
    /\ k > j + 1 /\ k \in DOMAIN q /\ IsNum(q[k]) /\ q[k].n = 24 /\ LeadZeros(q[k]) = 0

\* /\b<name>\s*=\s*24\b/i at position i: the position of the 24, 0 when no match.
Eq24At(s, i, name) ==
  LET j == SkipSpaces(s, i + 1)
      k == SkipSpaces(s, j + 1) IN
  IF /\ WordAt(s, i, {name})
     /\ j \in DOMAIN s /\ Is(s[j], "=")
     /\ k \in DOMAIN s /\ IsNum(s[k]) /\ s[k].n = 24 /\ LeadZeros(s[k]) = 0
  THEN k ELSE 0

\* s.replace(/\b<name>\s*=\s*24\b/gi, '<name> >= 24') from position i on.
RECURSIVE AtLeastScan(_, _, _)
AtLeastScan(s, i, name) ==
  LET ms == {k \in i..Len(s) : Eq24At(s, k, name) # 0} IN
  IF ms = {} THEN SubSeq(s, i, Len(s))
  ELSE SubSeq(s, i, MinOf(ms) - 1)
         \o <<W(name), W(" "), W(">"), W("="), W(" "), Num(24)>>
         \o AtLeastScan(s, Eq24At(s, MinOf(ms), name) + 1, name)

\* Lines 81-84: the "at least 24 hours" guard.
AtLeast24(s, q) ==
  IF QuestionAtLeast24(q)
  THEN AtLeastScan(AtLeastScan(s, 1, "streak_count"), 1, "hours")
  ELSE s

\* The first j >= i with ")", white space and then a name after it; 0 when none.
CloseThenName(s, i) ==
  LET ms == {k \in i..Len(s) :
               /\ Is(s[k], ")")
               /\ SkipSpaces(s, k + 1) > k + 1
               /\ SkipSpaces(s, k + 1) \in DOMAIN s
               /\ IsIdent(s[SkipSpaces(s, k + 1)])} IN
  IF ms = {} THEN 0 ELSE SkipSpaces(s, MinOf(ms) + 1)

\* The regular expression of line 87 at position i: the position of the captured
\* alias, 0 when no match.
AliasMatchAt(s, i) ==
  LET j == SkipSpaces(s, i + 1)
      k == SkipSpaces(s, j + 1)
      l == SkipSpaces(s, k + 1)
      m == SkipSpaces(s, l + 2)
      n == SkipSpaces(s, m + 3)
      o == SkipSpaces(s, n + 1)
      p == SkipSpaces(s, o + 2)
      r == SkipSpaces(s, p + 1) IN
  IF /\ i \in DOMAIN s /\ IsIdent(s[i]) /\ Lower(s[i].w) = "from"
     /\ j \in DOMAIN s /\ Is(s[j], "(")
     /\ k \in DOMAIN s /\ Lower(s[k].w) = "select"
     /\ l + 1 <= Len(s) /\ Lower(s[l].w) = "date_trunc" /\ Is(s[l + 1], "(")
     /\ m + 2 <= Len(s) /\ Is(s[m], "'") /\ Lower(s[m + 1].w) = "hour" /\ Is(s[m + 2], "'")
     /\ n \in DOMAIN s /\ Is(s[n], ",")
     /\ o + 1 <= Len(s) /\ Lower(s[o].w) = "ts" /\ Is(s[o + 1], ")")
     /\ p > o + 2 /\ p \in DOMAIN s /\ Lower(s[p].w) = "as"
     /\ r > p + 1 /\ r \in DOMAIN s /\ Lower(s[r].w) = "hour"
  THEN CloseThenName(s, r + 2) ELSE 0

\* aliasMatch?.[1] || 'h'
baseAlias(s) ==
  LET ms == {k \in DOMAIN s : AliasMatchAt(s, k) # 0} IN
  IF ms = {} THEN "h" ELSE s[AliasMatchAt(s, MinOf(ms))].w

\* new RegExp(`\\b${baseAlias}\\s*\\.\\s*symbol\\b`, 'i').test(s) || /\bsymbol\b/i.test(s)
hasSymbolRef(s) ==
  \/ \E i \in DOMAIN s :
       LET j == SkipSpaces(s, i + 1)
           k == SkipSpaces(s, j + 1) IN
       /\ WordAt(s, i, {Lower(baseAlias(s))})
       /\ j \in DOMAIN s /\ Is(s[j], ".")
       /\ WordAt(s, k, {"symbol"})
  \/ \E i \in DOMAIN s : WordAt(s, i, {"symbol"})

\* The last lexeme of the run [a-z0-9_\.]* that starts at i.
RECURSIVE ColEnd(_, _)
ColEnd(s, i) ==
  IF i < Len(s) /\ (IsWordTok(s[i + 1]) \/ Is(s[i + 1], ".")) THEN ColEnd(s, i + 1) ELSE i

\* orderCol.includes('.') ? orderCol.split('.').pop() : orderCol
RECURSIVE colOnly(_)
colOnly(col) ==
  IF \E i \in DOMAIN col : Is(col[i], ".")
  THEN colOnly(Tail(col))
  ELSE col

\* The regular expression of line 92 at position i: where the ORDER BY column
\* starts and ends and where the match ends; end = 0 when no match.
PercentileAt(s, i) ==
  LET a == SkipSpaces(s, i + 1)
      b == SkipSpaces(s, a + 1)
      c == SkipSpaces(s, b + 1)
      d == SkipSpaces(s, c + 1)
      e == SkipSpaces(s, d + 1)
      f == SkipSpaces(s, e + 1)
      g == SkipSpaces(s, f + 1)
      h == SkipSpaces(s, g + 1)
      o == SkipSpaces(s, h + 1)
      p == SkipSpaces(s, o + 1)
      c1 == SkipSpaces(s, p + 1)
      c2 == ColEnd(s, c1)
      t == SkipSpaces(s, c2 + 1)
      u == SkipSpaces(s, t + 1)
      v == SkipSpaces(s, u + 1)
      x == NextClose(s, v + 1) IN
  IF /\ i \in DOMAIN s /\ IsIdent(s[i]) /\ Lower(s[i].w) = "percentile_cont"
     /\ a \in DOMAIN s /\ Is(s[a], "(")
     /\ b \in DOMAIN s /\ IsNum(s[b]) /\ s[b].n = 0 /\ LeadZeros(s[b]) = 0
     /\ c \in DOMAIN s /\ Is(s[c], ".")
     /\ d \in DOMAIN s /\ IsNum(s[d]) /\ s[d].n = 75 /\ LeadZeros(s[d]) = 0
     /\ e \in DOMAIN s /\ Is(s[e], ")")
     /\ f \in DOMAIN s /\ Lower(s[f].w) = "within"
     /\ g > f + 1 /\ g \in DOMAIN s /\ Lower(s[g].w) = "group"
     /\ h \in DOMAIN s /\ Is(s[h], "(")
     /\ o \in DOMAIN s /\ Lower(s[o].w) = "order"
     /\ p > o + 1 /\ p \in DOMAIN s /\ Lower(s[p].w) = "by"
     /\ c1 > p + 1 /\ c1 \in DOMAIN s /\ IsIdent(s[c1])
     /\ t \in DOMAIN s /\ Is(s[t], ")")
     /\ u \in DOMAIN s /\ Lower(s[u].w) = "over"
     /\ v \in DOMAIN s /\ Is(s[v], "(")
     /\ x \in DOMAIN s
  THEN [from |-> c1, to |-> c2, end |-> x]
  ELSE [from |-> 0, to |-> 0, end |-> 0]

\* The replacement of lines 96-107.
PercentileSub(col, alias, symRef) ==
  Toks(<<"(", "\n", " ", " ", "SELECT", " ", "percentile_cont", "(">>)
    \o <<Num(0), W("."), Num(75)>>
    \o Toks(<<")", " ", "WITHIN", " ", "GROUP", " ", "(", "ORDER", " ", "BY", " ", "h2",
              ".">>)
    \o col
    \o Toks(<<")", "\n", " ", " ", "FROM", " ", "(", "\n">>) \o Spaces(4)
    \o Toks(<<"SELECT", " ", "date_trunc", "(", "'", "hour", "'", ",", " ", "ts", ")",
              " ", "AS", " ", "hour", ",", " ", "symbol", ",", " ", "protocol", ",", " ",
              "AVG", "(", "utilization", ")", " ", "AS", " ", "util", "\n">>)
    \o Spaces(4)
    \o Toks(<<"FROM", " ", "public", ".", "market_data", "\n">>) \o Spaces(4)
    \o Toks(<<"WHERE", " ", "protocol", "=", "'", "aave", "'", "\n">>) \o Spaces(6)
    \o Toks(<<"AND", " ", "ts", " ", ">", "=", " ", "NOW", "(", ")", " ", "-", " ",
              "INTERVAL", " ", "'">>)
    \o <<Num(6)>> \o Toks(<<" ", "months", "'", "\n">>) \o Spaces(4)
    \o Toks(<<"GROUP", " ", "BY", " ">>)
    \o <<Num(1), W(","), Num(2), W(","), Num(3)>>
    \o Toks(<<"\n", " ", " ", ")", " ", "h2", "\n", " ", " ", "WHERE", " ", "h2", ".",
              "hour", " ", "BETWEEN", " ", alias, ".", "hour", " ", "-", " ", "INTERVAL",
              " ", "'">>)
    \o <<Num(30)>>
    \o Toks(<<" ", "days", "'", " ", "AND", " ", alias, ".", "hour", "\n", " ", " ">>)
    \o (IF symRef
        THEN Toks(<<"AND", " ", "h2", ".", "symbol", " ", "=", " ", alias, ".", "symbol">>)
        ELSE <<>>)
    \o Toks(<<"\n", ")">>)

\* s.replace(<line 92>, ...) from position i on; alias and symRef were computed
\* from the text before the replacement (lines 87-89).
RECURSIVE PercentileScan(_, _, _, _)
PercentileScan(s, i, alias, symRef) ==
  LET ms == {k \in i..Len(s) : PercentileAt(s, k).end # 0} IN
  IF ms = {} THEN SubSeq(s, i, Len(s))
  ELSE LET m == PercentileAt(s, MinOf(ms)) IN
       SubSeq(s, i, MinOf(ms) - 1)
         \o PercentileSub(colOnly(SubSeq(s, m.from, m.to)), alias, symRef)
         \o PercentileScan(s, m.end + 1, alias, symRef)

PercentileRewrite(s) == PercentileScan(s, 1, baseAlias(s), hasSymbolRef(s))

tweakSqlHeuristics(s, q) ==
  PercentileRewrite(AtLeast24(HourlyPreAgg(PctScan(s, 1), q), q))

\* ------------------------------------------------- texts given to the rewriter

\* The largest utilization threshold written as a percentage.
MaxThreshold == 150

RwQuestions == {"plain", "streak", "atleast_days", "atleast_hours", "atleast_12"}
\* The numbers a streak or hour count is compared with.
StreakNs == {12, 24}
RwItems == {"*", "ts", "lit_util", "lit_ts", "perc", "perc_fq", "trunc"}
RwFroms == {"public.md", "md", "hourly"}
ThresholdInts == {0, 1, 85, 100, MaxThreshold}
\* -1: no decimals; otherwise the decimals (".5", ".85"), on thresholds below 100.
ThresholdFracs == {-1, 5, 85}
RwConds ==
  {[kind |-> "none", op |-> ">", int |-> 0, frac |-> -1]}
    \cup {[kind |-> k, op |-> ">", int |-> n, frac |-> -1] :
            k \in {"streak_eq", "hours_eq"}, n \in StreakNs}
    \cup {c \in [kind : {"util"}, op : {">", ">=", "<"}, int : ThresholdInts,
                 frac : ThresholdFracs] : c.frac # -1 => c.int < 100}

QuestionText(k) ==
  CASE k = "plain" -> Toks(<<"show", " ", "utilization">>)
    [] k = "streak" -> Toks(<<"longest", " ", "streak">>)
    [] k = "atleast_days" -> Toks(<<"at", " ", "least", " ">>) \o <<Num(24)>> \o Toks(<<" ", "days">>)
    [] k = "atleast_hours" ->
         Toks(<<"at", " ", "least", " ">>) \o <<Num(24)>> \o Toks(<<" ", "hours">>)
    [] k = "atleast_12" ->
         Toks(<<"at", " ", "least", " ">>) \o <<Num(12)>> \o Toks(<<" ", "days">>)

RwItemText(k) ==
  CASE k = "*" -> Toks(<<"*">>)
    [] k = "ts" -> Toks(<<"ts">>)
    [] k = "lit_util" ->
         Toks(<<"'", "utilization", " ", ">", " ">>) \o <<Num(85)>> \o Toks(<<"'">>)
    [] k = "lit_ts" -> Toks(<<"'", "ts", "'">>)
    [] k = "perc" ->
         Toks(<<"percentile_cont", "(">>) \o <<Num(0), W("."), Num(75)>>
           \o Toks(<<")", " ", "WITHIN", " ", "GROUP", " ", "(", "ORDER", " ", "BY", " ",
                     "utilization", ")", " ", "OVER", " ", "(", "PARTITION", " ", "BY",
                     " ", "symbol", ")">>)
    [] k = "perc_fq" ->
         Toks(<<"percentile_cont", " ", "(", " ">>) \o <<Num(0), W("."), Num(75)>>
           \o Toks(<<")", " ", "within", " ", "group", " ", "(", "order", " ", "by", " ",
                     "x", ".", "util", ")", " ", "over", "(", ")">>)
    [] k = "trunc" ->
         Toks(<<"date_trunc", "(", "'", "hour", "'", ",", " ", "ts", ")", " ", "AS", " ",
                "hour">>)

RwFromText(k) ==
  CASE k = "public.md" -> Toks(<<"FROM", " ", "public", ".", "market_data">>)
    [] k = "md" -> Toks(<<"FROM", " ", "market_data">>)
    [] k = "hourly" ->
         Toks(<<"FROM", " ", "(", "SELECT", " ", "date_trunc", "(", "'", "hour", "'", ",",
                " ", "ts", ")", " ", "AS", " ", "hour", ",", " ", "utilization", " ",
                "FROM", " ", "public", ".", "market_data", ")", " ", "x">>)

ThresholdText(c) ==
  <<Num(c.int)>>
    \o (IF c.frac = -1 THEN <<>> ELSE <<W("."), Num(c.frac)>>)

RwCondText(c) ==
  CASE c.kind = "none" -> <<>>
    [] c.kind = "streak_eq" ->
         Toks(<<" ", "WHERE", " ", "streak_count", " ", "=", " ">>) \o <<Num(c.int)>>
    [] c.kind = "hours_eq" -> Toks(<<" ", "WHERE", " ", "hours", "=">>) \o <<Num(c.int)>>
    [] c.kind = "util" ->
         Toks(<<" ", "WHERE", " ", "utilization", " ">>)
           \o (IF c.op = ">=" THEN Toks(<<">", "=">>) ELSE Toks(<<c.op>>))
           \o SP \o ThresholdText(c)

RwText(c) ==
  Toks(<<"SELECT", " ">>) \o RwItemText(c.item) \o SP \o RwFromText(c.from)
    \o RwCondText(c.cond)

RwCandidates == [q : RwQuestions, item : RwItems, from : RwFroms, cond : RwConds]

\* ------------------------------------------------------ rewriter specification

\* handler, line 341: sql = tweakSqlHeuristics(sql, question)
RewriteInit ==
  /\ cand \in RwCandidates
  /\ sql = RwText(cand)
  /\ question = QuestionText(cand.q)
  /\ op = "idle"
  /\ res = NoResult
  /\ NoRequest

Tweak ==
  /\ op = "idle"
  /\ op' = "tweak"
  /\ res' = Accept(tweakSqlHeuristics(sql, question))
  /\ UNCHANGED <<cand, sql, question, hvars>>

\* The rewriter applied to its own output.
TweakAgain ==
  /\ op = "tweak"
  /\ op' = "tweakAgain"
  /\ sql' = res.out
  /\ res' = Accept(tweakSqlHeuristics(res.out, question))
  /\ UNCHANGED <<cand, question, hvars>>

RewriteNext == Tweak \/ TweakAgain

RewriteSpec == RewriteInit /\ [][RewriteNext]_vars

\* ------------------------------------------------------- rewriter properties

\* The single-quoted literals of a text from position i on, in order.
RECURSIVE LiteralsFrom(_, _)
LiteralsFrom(s, i) ==
  LET quotes == {k \in i..Len(s) : Is(s[k], "'")} IN
  IF quotes = {} THEN <<>>
  ELSE LET a == MinOf(quotes)
           rest == quotes \ {a} IN
       IF rest = {} THEN <<>>
       ELSE <<SubSeq(s, a, MinOf(rest))>> \o LiteralsFrom(s, MinOf(rest) + 1)

RECURSIVE IsSubsequence(_, _)
IsSubsequence(a, b) ==
  IF a = <<>> THEN TRUE
  ELSE IF b = <<>> THEN FALSE
  ELSE IF Head(a) = Head(b) THEN IsSubsequence(Tail(a), Tail(b))
  ELSE IsSubsequence(a, Tail(b))

\* C11: applying tweakSqlHeuristics to its own output changes nothing.
C11_TweakIdempotent == op = "tweakAgain" => res.out = sql

\* C12: the single-quoted literals of the input occur unchanged and in order
\* among the literals of the output of tweakSqlHeuristics.
C12_LiteralsUntouched ==
  op = "tweak" => IsSubsequence(LiteralsFrom(sql, 1), LiteralsFrom(res.out, 1))

\* ----------------------------------------- api/query.js: stripTimeFilterIfAny

\* /ts\s*>=/i.test(safeSql)
HasTsFilter(s) ==
  \E i \in DOMAIN s :
    LET j == SkipSpaces(s, i + 1) IN
    /\ IsIdent(s[i]) /\ Lower(s[i].w) = "ts"
    /\ j < Len(s) /\ Is(s[j], ">") /\ Is(s[j + 1], "=")

\* The lookahead (?=(\)|ORDER\s+BY|LIMIT|$)) at position p.
StopAt(s, p) ==
  \/ p = Len(s) + 1
  \/ /\ p \in DOMAIN s
     /\ \/ Is(s[p], ")")
        \/ Lower(s[p].w) = "limit"
        \/ /\ Lower(s[p].w) = "order"
           /\ SkipSpaces(s, p + 1) > p + 1
           /\ SkipSpaces(s, p + 1) \in DOMAIN s
           /\ Lower(s[SkipSpaces(s, p + 1)].w) = "by"

\* /<kw>\s+ts\s*>=\s*.+?(?=(\)|ORDER\s+BY|LIMIT|$))/is at position i: the position
\* after the match, 0 when no match.  The lazy .+? takes at least the first
\* character that follows the white space after >= and stops at the first
\* position after it where the lookahead holds.
TimeFilterAt(s, i, kw) ==
  LET j == SkipSpaces(s, i + 1)
      k == SkipSpaces(s, j + 1)
      a == SkipSpaces(s, k + 2) IN
  IF /\ i \in DOMAIN s /\ IsIdent(s[i]) /\ Lower(s[i].w) = kw
     /\ j > i + 1 /\ j \in DOMAIN s /\ Lower(s[j].w) = "ts"
     /\ k < Len(s) /\ Is(s[k], ">") /\ Is(s[k + 1], "=")
     /\ (a <= Len(s) \/ a > k + 2)
  THEN IF a > Len(s) THEN Len(s) + 1
       ELSE MinOf({p \in (a + 1)..(Len(s) + 1) : StopAt(s, p)})
  ELSE 0

\* out.replace(/AND\s+ts\s*>=\s*.+?(?=...)/is, ''): the first match only.
StripAndFilter(s) ==
  LET ms == {i \in DOMAIN s : TimeFilterAt(s, i, "and") # 0} IN
  IF ms = {} THEN s
  ELSE SubSeq(s, 1, MinOf(ms) - 1) \o SubSeq(s, TimeFilterAt(s, MinOf(ms), "and"), Len(s))

\* out.replace(/WHERE\s+ts\s*>=\s*.+?(?=...)/is,
\*             (m) => (/\bAND\b/i.test(m) ? m : 'WHERE 1=1 '))
StripWhereFilter(s) ==
  LET ms == {i \in DOMAIN s : TimeFilterAt(s, i, "where") # 0} IN
  IF ms = {} THEN s
  ELSE LET i == MinOf(ms)
           p == TimeFilterAt(s, i, "where") IN
       IF \E x \in i..(p - 1) : WordAt(s, x, {"and"})
       THEN s
       ELSE SubSeq(s, 1, i - 1)
              \o <<W("WHERE"), W(" "), Num(1), W("="), Num(1), W(" ")>>
              \o SubSeq(s, p, Len(s))

stripTimeFilterIfAny(s) == StripWhereFilter(StripAndFilter(s))

\* ------------------------------------------------------------ the handlers

\* The three request handlers of the repository: src/api/query.js ("query"),
\* the planner handler of src/unnamed/part_002 ("planner", guard of
\* lib/guard.js, schema of lib/schema.js) and src/unnamed/part_009
\* ("part_009", runQuery helper, one try/catch around the whole request).
HandlerVariants == {"query", "planner", "part_009"}

\* Connections other requests hold when the request starts.
MaxOthers == 1
\* Rows a data statement returns.
MaxRows == 1

\* Messages of a failing checkout or statement.
Msgs == {"syntax error", "OVER is not supported for ordered-set aggregate",
         "percentile_cont OVER", "statement timeout"}

\* needsRetry / retryable: the three tests on the message.
needsRetryAlways(msg) == TRUE
needsRetry(msg) ==
  msg \in {"syntax error", "OVER is not supported for ordered-set aggregate",
           "percentile_cont OVER"}

\* The questions of the requests.
QuestionKinds ==
  {"other", "latest", "latest_util", "latest_weth", "latest_aero", "latest_bare_price"}
HQuestionText(k) ==
  CASE k = "other" -> Toks(<<"show", " ", "utilization">>)
    [] k = "latest" -> Toks(<<"latest", " ", "usdc", " ", "utilization">>)
    [] k = "latest_util" -> Toks(<<"latest", " ", "utilization">>)
    [] k = "latest_weth" -> Toks(<<"latest", " ", "weth", " ", "utilization">>)
    [] k = "latest_aero" -> Toks(<<"latest", " ", "aerodrome", " ", "fees">>)
    [] k = "latest_bare_price" -> Toks(<<"current", " ", "price">>)

HasWord(q, ws) == \E i \in DOMAIN q : WordAt(q, i, ws)
\* /\b(latest|most\s+recent|current)\b/i (query, part_009);
\* /\b(latest|current|now|most\s*recent)\b/i (planner)
looksLikeLatest(h, q) ==
  \/ HasWord(q, {"latest", "current"})
  \/ h = "planner" /\ HasWord(q, {"now", "mostrecent"})
  \/ \E i \in DOMAIN q :
       /\ WordAt(q, i, {"most"})
       /\ SkipSpaces(q, i + 1) > i + 1
       /\ WordAt(q, SkipSpaces(q, i + 1), {"recent"})
looksLikeAero(q) == HasWord(q, {"aero", "aerodrome", "dex"})
PriceTickers ==
  {"btc", "eth", "xrp", "usdt", "bnb", "sol", "usdc", "doge", "trx", "ada", "link",
   "hype", "usde", "sui", "bch", "xlm", "avax", "hbar", "cro", "leo", "ltc"}
looksLikePrices(q) ==
  \/ HasWord(q, {"price", "volume", "marketcap"})
  \/ \E i \in DOMAIN q :
       /\ WordAt(q, i, {"market"})
       /\ WordAt(q, SkipSpaces(q, i + 1), {"cap"})
  \/ HasWord(q, PriceTickers)
\* extractSymbolFromText(question) of the planner handler is not null
HasSymbol(q) == HasWord(q, PriceTickers \cup {"weth", "dai", "wbtc"})

\* extractSymbolFromText: the first ticker of the question in upper case, ""
\* for null (query, part_009: USDC|USDBC|WETH|ETH|CBETH|CBBTC|GHO|EURC|WEETH).
SymbolWords(h) ==
  IF h = "planner" THEN PriceTickers \cup {"weth", "dai", "wbtc"}
  ELSE {"usdc", "usdbc", "weth", "eth", "cbeth", "cbbtc", "gho", "eurc", "weeth"}
UpperCase(w) ==
  CASE w = "usdc" -> "USDC" [] w = "weth" -> "WETH" [] w = "eth" -> "ETH" [] OTHER -> w
normalizeSymbol(h, sym) == IF h # "planner" /\ sym = "ETH" THEN "WETH" ELSE sym
extractSymbolFromText(h, q) ==
  LET ms == {i \in DOMAIN q : WordAt(q, i, SymbolWords(h))} IN
  IF ms = {} THEN ""
  ELSE LET m == UpperCase(Lower(q[MinOf(ms)].w)) IN
       IF h = "planner" THEN m ELSE normalizeSymbol(h, m)
\* const symbol = normalizeSymbol(extractSymbolFromText(question) || 'USDC')
FastSymbol(h, q) ==
  IF extractSymbolFromText(h, q) = "" THEN "USDC"
  ELSE normalizeSymbol(h, extractSymbolFromText(h, q))

\* Which fast path a request takes ("none": the planner stage).
FastPath(h, q) ==
  IF h \in {"query", "part_009"}
  THEN (IF looksLikeLatest(h, q) THEN "utilization" ELSE "none")
  ELSE IF looksLikeLatest(h, q) /\ looksLikePrices(q) /\ HasSymbol(q) THEN "price"
  ELSE IF looksLikeLatest(h, q) /\ looksLikeAero(q) THEN "aero"
  ELSE IF looksLikeLatest(h, q) /\ ~looksLikeAero(q) /\ ~looksLikePrices(q) THEN "utilization"
  ELSE "none"

NL6 == <<W("\n")>> \o Spaces(6)
\* The hand-written statements of the fast paths (template literals, with their
\* line breaks and indentation).
latestSql(symbol) ==
  NL6 \o Toks(<<"SELECT", " ", "ts", ",", " ", "utilization", ",", " ", "ROUND", "(",
               "utilization", "*">>) \o <<Num(100), W(","), Num(2)>>
    \o Toks(<<")", " ", "AS", " ", "utilization_pct">>)
    \o NL6 \o Toks(<<"FROM", " ", "public", ".", "market_data">>)
    \o NL6 \o Toks(<<"WHERE", " ", "protocol", "=", "'", "aave", "'", " ", "AND", " ",
                     "symbol", "=", "'", symbol, "'">>)
    \o NL6 \o Toks(<<"ORDER", " ", "BY", " ", "ts", " ", "DESC">>)
    \o NL6 \o <<W("LIMIT"), W(" "), Num(1)>> \o <<W("\n")>> \o Spaces(4)
latestPriceSql(symbol) ==
  NL6 \o Toks(<<"SELECT", " ", "asset_id", ",", " ", "ts", ",", " ", "price", ",", " ",
               "market_cap", ",", " ", "total_volume">>)
    \o NL6 \o Toks(<<"FROM", " ", "public", ".", "token_prices">>)
    \o NL6 \o Toks(<<"WHERE", " ", "asset_id", "=", "'", symbol, "'">>)
    \o NL6 \o Toks(<<"ORDER", " ", "BY", " ", "ts", " ", "DESC">>)
    \o NL6 \o <<W("LIMIT"), W(" "), Num(1)>> \o <<W("\n")>> \o Spaces(4)
latestAeroSql ==
  NL6 \o Toks(<<"SELECT", " ", "date_utc", ",", " ", "volume_usd", ",", " ", "fees_usd",
               ",", " ", "tvl_usd", ",", " ", "tx_count">>)
    \o NL6 \o Toks(<<"FROM", " ", "public", ".", "aero_protocol_daily">>)
    \o NL6 \o Toks(<<"ORDER", " ", "BY", " ", "date_utc", " ", "DESC">>)
    \o NL6 \o <<W("LIMIT"), W(" "), Num(1)>> \o <<W("\n")>> \o Spaces(4)
FastSql(h, q) ==
  CASE FastPath(h, q) = "price" -> latestPriceSql(FastSymbol(h, q))
    [] FastPath(h, q) = "aero" -> latestAeroSql
    [] OTHER -> latestSql(FastSymbol(h, q))

\* The answer of a fast path that got n rows.
FastAnswer(h, q, n) ==
  CASE n = 0 ->
         Ans(IF h = "planner" /\ FastPath(h, q) \in {"price", "aero"} THEN "no rows found"
             ELSE "no results", "", 0, FALSE, 0)
    [] FastPath(h, q) = "price" -> Ans("latest price", FastSymbol(h, q), 0, FALSE, 0)
    [] FastPath(h, q) = "aero" -> Ans("latest aerodrome day", "", 0, FALSE, 0)
    [] h = "query" ->
         \* `Latest ${symbol} utilization is ${Number(r.utilization).toFixed(8)}.`
         Ans("latest utilization", FastSymbol(h, q), 8, FALSE, 0)
    [] h = "planner" ->
         \* `Latest ${symbol} utilization is ${Number(r.utilization_pct).toFixed(2)}%.`
         Ans("latest utilization", FastSymbol(h, q), 2, TRUE, 0)
    [] OTHER ->
         \* `Latest ${symbol} utilization is ${pct}% at ${r.ts...}.`
         Ans("latest utilization at", FastSymbol(h, q), 2, TRUE, 0)

\* What the planner model answers: the call fails, the answer carries no usable
\* JSON / sql, or it carries one of these statements.
PlanTexts == {"plain", "window", "drop", "secret", "limit1000", "sublimit"}
PlanText(k) ==
  CASE k = "plain" -> Toks(<<"SELECT", " ", "*", " ", "FROM", " ", "public", ".", "market_data">>)
    [] k = "window" ->
         Toks(<<"SELECT", " ", "*", " ", "FROM", " ", "public", ".", "market_data", " ",
                "WHERE", " ", "ts", " ", ">", "=", " ", "NOW", "(", ")", " ", "-", " ",
                "INTERVAL", " ", "'">>) \o <<Num(7)>> \o Toks(<<" ", "days", "'">>)
    [] k = "drop" -> Toks(<<"DROP", " ", "TABLE", " ", "public", ".", "market_data">>)
    [] k = "secret" -> Toks(<<"SELECT", " ", "*", " ", "FROM", " ", "public", ".", "secret">>)
    [] k = "limit1000" ->
         Toks(<<"SELECT", " ", "*", " ", "FROM", " ", "public", ".", "market_data", " ",
                "LIMIT", " ">>) \o <<Num(2 * MAX_LIMIT)>>
    [] k = "sublimit" ->
         Toks(<<"SELECT", " ", "*", " ", "FROM", " ", "(", "SELECT", " ", "*", " ", "FROM",
                " ", "public", ".", "market_data", " ", "LIMIT", " ">>)
           \o <<Num(1)>> \o Toks(<<")", " ", "t">>)
LlmOutcomes == {"error", "nonjson"} \cup PlanTexts

\* ------------------------------------------------- one request, step by step

\* The awaited database blocks (checkout, statements, release in finally) and
\* the awaited LLM calls of a handler.
DbBlocks == {"probe", "fast", "schema", "main", "retry", "fallback"}

\* An entry of the request's trace.
Ev(e, b, k, text, out, msg, n) ==
  [e |-> e, b |-> b, k |-> k, sql |-> text, out |-> out, msg |-> msg, n |-> n]
ConnectEv(b, msg) == Ev("connect", b, "", <<>>, <<>>, msg, 0)
StmtEv(b, k, text, msg, n) == Ev("stmt", b, k, text, <<>>, msg, n)
ReleaseEv(b) == Ev("release", b, "", <<>>, <<>>, "", 0)
LlmEv(b, msg) == Ev("llm", b, "", <<>>, <<>>, msg, 0)
GuardEv(b, text, g) == Ev("guard", b, "", text, g.out, g.err, 0)

\* Where control goes after a step: on to the next awaited step, out with a
\* response, or out with an exception nothing in the handler catches.
Goto(p) == [pc |-> p, ph |-> IF p \in DbBlocks THEN "connect" ELSE "", resp |-> NoResp]
Send(status, error, msg) ==
  [pc |-> "done", ph |-> "",
   resp |-> [status |-> status, error |-> error, msg |-> msg, withSql |-> FALSE,
             sql |-> <<>>, answer |-> NoAnswer, rows |-> -1]]
SendSql(status, error, msg, text) ==
  [pc |-> "done", ph |-> "",
   resp |-> [status |-> status, error |-> error, msg |-> msg, withSql |-> TRUE,
             sql |-> text, answer |-> NoAnswer, rows |-> -1]]
\* send(res, 200, { ok: true, answer, sql, rows })
SendOk(answer, text, n) ==
  [pc |-> "done", ph |-> "",
   resp |-> [status |-> 200, error |-> "", msg |-> "", withSql |-> TRUE,
             sql |-> text, answer |-> answer, rows |-> n]]
Throw == [pc |-> "thrown", ph |-> "", resp |-> NoResp]

\* pool.connect() / client.release() on the count of checked-out connections.
CheckinLeak(n) == n
Checkout(n) == n + 1
Checkin(n) == n - 1

\* Lines 298-302 (planner: 266-268): after the probe, when no fast path applies.
StartPlanner(h, key, cached) ==
  IF ~key THEN Send(500, "OPENAI_API_KEY not set", "")
  ELSE IF h = "query" /\ cached THEN Goto("plan")
  ELSE Goto("schema")

\* The probe failed (checkout, SET or SELECT 1).
OnProbeErrorGoOn(h, key, cached, msg) == StartPlanner(h, key, cached)
OnProbeError(h, key, cached, msg) == Send(500, "DB error", msg)

\* rows.length === 0 && /ts\s*>=/i.test(safeSql)
AnyWithTimeFilter(n, s) == HasTsFilter(s)
EmptyWithTimeFilter(n, s) == n = 0 /\ HasTsFilter(s)

\* After rows came back from the main or the retried execution.
AfterRows(h, n, s) ==
  IF h # "planner" /\ EmptyWithTimeFilter(n, s) THEN Goto("fallback") ELSE Goto("summarize")

\* A block b ended without error; n rows came back.
OnOk(h, b, q, key, cached, n, safe) ==
  CASE b = "probe" ->
         IF FastPath(h, q) # "none" THEN Goto("fast") ELSE StartPlanner(h, key, cached)
    [] b = "fast" ->
         SendOk(FastAnswer(h, q, n),
                IF h = "part_009" THEN FastSql(h, q) ELSE Trim(FastSql(h, q)), n)
    [] b = "schema" ->
         IF h = "part_009" /\ FastPath(h, q) # "none" THEN Goto("fast") ELSE Goto("plan")
    [] b \in {"main", "retry"} -> AfterRows(h, n, safe)
    [] b = "fallback" -> Goto("summarize")

\* A block b ended with an error of message msg.
OnError(h, b, q, key, cached, msg, planned, safe) ==
  CASE b = "probe" -> OnProbeError(h, key, cached, msg)
    [] b = "fast" ->
         IF h = "part_009" \/ FastPath(h, q) \in {"price", "aero"}
         THEN Send(500, "SQL error", msg)
         ELSE SendSql(500, "SQL error", msg, Trim(FastSql(h, q)))
    [] b = "schema" -> IF h = "part_009" THEN Send(500, "", msg) ELSE Throw
    [] b = "main" ->
         IF needsRetry(msg) THEN Goto("replan") ELSE SendSql(500, "SQL error", msg, safe)
    [] b = "retry" ->
         (CASE h = "query" -> Throw
            [] h = "planner" -> SendSql(500, "Retry plan error", msg, planned)
            [] h = "part_009" -> Send(500, "", msg))
    [] b = "fallback" -> IF h = "query" THEN Throw ELSE Send(500, "", msg)

\* The statement a block runs after SET statement_timeout.
StmtKind(b) ==
  CASE b = "probe" -> "SELECT 1" [] b = "schema" -> "schema" [] OTHER -> "data"
StmtText(h, b, q, safe) ==
  CASE b \in {"probe", "schema"} -> <<>>
    [] b = "fast" -> FastSql(h, q)
    [] b \in {"main", "retry"} -> safe
    [] b = "fallback" -> stripTimeFilterIfAny(safe)

\* The database: a statement whose outermost LIMIT is n returns at most n rows,
\* one without an outermost LIMIT up to the rows of the table.
TableRows == 1000
Depth(s, i) ==
  Cardinality({j \in 1..(i - 1) : Is(s[j], "(")}) - Cardinality({j \in 1..(i - 1) : Is(s[j], ")")})
OuterLimits(s) == {i \in DOMAIN s : LimitAt(s, i) # 0 /\ Depth(s, i) = 0}
MostRows(s) ==
  IF OuterLimits(s) = {} THEN TableRows
  ELSE LET i == CHOOSE x \in OuterLimits(s) : \A y \in OuterLimits(s) : y <= x IN
       s[LimitAt(s, i)].n
RowCounts(s) == {n \in 0..MaxRows : n <= MostRows(s)} \cup {MostRows(s)}

\* fetchSchema (query.js 208-236, lib/schema.js 12-79, part_009) runs its query
\* right after the checkout; every other block issues SET statement_timeout first.
FirstPhase(b) == IF b = "schema" THEN "query" ELSE "set"

\* guardSql as the handler calls it.
HandlerGuard(h, text) ==
  IF h = "planner"
  THEN LibGuardSql(text, LibTables, LibColsByTable, MAX_LIMIT)
  ELSE ApiGuardSql(text, ApiTables, ApiColsByTable)

\* The candidate the handler hands to guardSql for a statement of the model.
Candidate(h, text, q) == IF h = "planner" THEN text ELSE tweakSqlHeuristics(Trim(text), q)

\* The planner call returned o; c is the candidate handed to guardSql and g the
\* guard's result (lines 304-350; planner 270-284; part_009 steps 3-4).
AfterPlan(h, o, c, g) ==
  IF o \in {"error", "nonjson"}
  THEN Send(500, IF h = "planner" THEN "LLM planning error"
                 ELSE IF o = "error" THEN "LLM error" ELSE "LLM returned non-JSON", "")
  ELSE IF h = "query" /\ ~ApiPrefixOk(Trim(PlanText(o)))
       THEN SendSql(400, "Only SELECT/CTE allowed", "", Trim(PlanText(o)))
       ELSE IF g.ok THEN Goto("main") ELSE SendSql(400, "guard", g.err, c)

\* The retry call returned o (lines 367-401; planner 303-306, 315-317; part_009).
AfterReplan(h, o, c, g, planned, safe) ==
  IF o \in {"error", "nonjson"}
  THEN (CASE h = "query" ->
               (IF o = "error" THEN SendSql(500, "Retry LLM error", "", safe)
                ELSE Send(500, "Retry model returned non-JSON", ""))
          [] h = "planner" -> SendSql(500, "Retry plan error", "", planned)
          [] h = "part_009" ->
               Send(500, IF o = "error" THEN "" ELSE "Retry LLM returned non-JSON", ""))
  ELSE IF g.ok THEN Goto("retry")
       ELSE (CASE h = "query" -> SendSql(400, "guard", g.err, c)
               [] h = "planner" -> SendSql(500, "Retry plan error", g.err, c)
               [] h = "part_009" -> Send(500, "", g.err))

\* `Returned ${rows.length} row(s).`
ReturnedRows(n) ==
  <<W("Returned"), W(" "), Num(n), W(" ")>> \o Toks(<<"row", "(", "s", ")", ".">>)
\* String(s).replace(/\s+%/g, '%').replace(/\s+,/g, ',').trim()
postProcessAnswer(t) ==
  Trim(SelectSeq([i \in DOMAIN t |->
                    IF IsSpace(t[i]) /\ SkipSpaces(t, i) <= Len(t)
                         /\ (Is(t[SkipSpaces(t, i)], "%") \/ Is(t[SkipSpaces(t, i)], ","))
                    THEN W("") ELSE t[i]],
                 LAMBDA x : x.w # ""))

\* The summarizing call returned (lines 416-430; planner 320-330; part_009 step 7).
AfterSummary(h, ok, safe, n) ==
  CASE ok -> SendOk(Ans("summary", "", 0, FALSE, 0), safe, n)
    [] h = "query" -> SendOk(Ans("empty", "", 0, FALSE, 0), safe, n)
    [] h = "planner" ->
         SendOk(AnsText("returned rows", postProcessAnswer(ReturnedRows(n))), safe, n)
    [] h = "part_009" -> Send(500, "", "")

HandlerInit ==
  /\ hv \in HandlerVariants
  /\ env \in [q : QuestionKinds, key : BOOLEAN, others : 0..MaxOthers]
  /\ schemaCache \in (IF hv = "query" THEN BOOLEAN ELSE {FALSE})
  /\ pc = IF hv = "part_009" THEN "schema" ELSE "probe"
  /\ ph = "connect"
  /\ inUse = env.others
  /\ plannedSql = <<>>
  /\ safeSql = <<>>
  /\ rows = -1
  /\ log = <<>>
  /\ resp = NoResp
  /\ queue = <<>>
  /\ cand = env.q
  /\ sql = <<>>
  /\ question = HQuestionText(env.q)
  /\ op = "idle"
  /\ res = NoResult

Jump(j) == pc' = j.pc /\ ph' = j.ph /\ resp' = j.resp

\* await pool.connect()
Connect ==
  /\ pc \in DbBlocks /\ ph = "connect"
  /\ \E msg \in {""} \cup Msgs :
       /\ log' = Append(log, ConnectEv(pc, msg))
       /\ IF msg = ""
          THEN /\ inUse' = Checkout(inUse)
               /\ ph' = FirstPhase(pc)
               /\ UNCHANGED <<pc, resp>>
          ELSE /\ Jump(OnError(hv, pc, question, env.key, schemaCache, msg, plannedSql,
                               safeSql))
               /\ UNCHANGED inUse
  /\ UNCHANGED <<hv, env, schemaCache, plannedSql, safeSql, rows, queue, gvars>>

\* await c.query(`SET statement_timeout = ${DB_TIMEOUT_MS}`); when it fails the
\* finally block releases the connection and the error goes on.
SetTimeout ==
  /\ pc \in DbBlocks /\ ph = "set"
  /\ \E msg \in {""} \cup Msgs :
       IF msg = ""
       THEN /\ log' = Append(log, StmtEv(pc, "SET", <<>>, msg, 0))
            /\ ph' = "query"
            /\ UNCHANGED <<pc, resp, inUse>>
       ELSE /\ log' = log \o <<StmtEv(pc, "SET", <<>>, msg, 0), ReleaseEv(pc)>>
            /\ inUse' = Checkin(inUse)
            /\ Jump(OnError(hv, pc, question, env.key, schemaCache, msg, plannedSql,
                            safeSql))
  /\ UNCHANGED <<hv, env, schemaCache, plannedSql, safeSql, rows, queue, gvars>>

\* await c.query(<statement>), the release in finally, and the code that follows
\* up to the next await.
Query ==
  /\ pc \in DbBlocks /\ ph = "query"
  /\ \E msg \in {""} \cup Msgs :
     \E n \in (IF msg # "" \/ pc \in {"probe", "schema"} THEN {0}
              ELSE RowCounts(StmtText(hv, pc, question, safeSql))) :
       /\ log' = log \o <<StmtEv(pc, StmtKind(pc), StmtText(hv, pc, question, safeSql),
                                  msg, n),
                          ReleaseEv(pc)>>
       /\ inUse' = Checkin(inUse)
       /\ IF msg = ""
          THEN /\ Jump(OnOk(hv, pc, question, env.key, schemaCache, n, safeSql))
               /\ rows' = IF pc \in {"probe", "schema"} THEN rows ELSE n
               /\ schemaCache' = IF pc = "schema" /\ hv = "query" THEN TRUE ELSE schemaCache
          ELSE /\ Jump(OnError(hv, pc, question, env.key, schemaCache, msg, plannedSql,
                               safeSql))
               /\ UNCHANGED <<rows, schemaCache>>
  /\ UNCHANGED <<hv, env, plannedSql, safeSql, queue, gvars>>

\* The planner call, the parse of its answer, the rewriter and the guard.
Plan ==
  /\ pc = "plan"
  /\ \E o \in LlmOutcomes :
     \E c \in {IF o \in PlanTexts THEN Candidate(hv, PlanText(o), question) ELSE <<>>} :
     \E guarded \in {(o \in PlanTexts) /\ (hv = "query" => ApiPrefixOk(Trim(PlanText(o))))} :
     \E g \in {IF guarded THEN HandlerGuard(hv, c) ELSE NoResult} :
       /\ log' = log \o <<LlmEv("plan", IF o = "error" THEN "error" ELSE "")>>
                     \o (IF guarded THEN <<GuardEv("plan", c, g)>> ELSE <<>>)
       /\ plannedSql' = IF guarded THEN c
                        ELSE IF o \in PlanTexts THEN Trim(PlanText(o)) ELSE plannedSql
       /\ safeSql' = IF g.ok THEN g.out ELSE safeSql
       /\ Jump(AfterPlan(hv, o, c, g))
  /\ UNCHANGED <<hv, env, schemaCache, inUse, rows, queue, gvars>>

\* The retry call, the parse of its answer, the rewriter and the guard.
Replan ==
  /\ pc = "replan"
  /\ \E o \in LlmOutcomes :
     \E c \in {IF o \in PlanTexts THEN Candidate(hv, PlanText(o), question) ELSE <<>>} :
     \E g \in {IF o \in PlanTexts THEN HandlerGuard(hv, c) ELSE NoResult} :
       /\ log' = log \o <<LlmEv("replan", IF o = "error" THEN "error" ELSE "")>>
                     \o (IF o \in PlanTexts THEN <<GuardEv("replan", c, g)>> ELSE <<>>)
       /\ plannedSql' = IF o \in PlanTexts THEN c ELSE plannedSql
       /\ safeSql' = IF g.ok THEN g.out ELSE safeSql
       /\ Jump(AfterReplan(hv, o, c, g, plannedSql', safeSql))
  /\ UNCHANGED <<hv, env, schemaCache, inUse, rows, queue, gvars>>

\* The summarizing call and the response.
Summarize ==
  /\ pc = "summarize"
  /\ \E ok \in BOOLEAN :
       /\ log' = Append(log, LlmEv("summarize", IF ok THEN "" ELSE "error"))
       /\ Jump(AfterSummary(hv, ok, safeSql, rows))
  /\ UNCHANGED <<hv, env, schemaCache, inUse, plannedSql, safeSql, rows, queue, gvars>>

HandlerNext == Connect \/ SetTimeout \/ Query \/ Plan \/ Replan \/ Summarize

HandlerSpec == HandlerInit /\ [][HandlerNext]_vars

\* ------------------------------------------------- properties of a request

\* The request is over: a response was sent or an exception left the handler.
Ended == pc \in {"done", "thrown"}

\* Entries of the trace.
LlmCalls(bs) == {i \in DOMAIN log : log[i].e = "llm" /\ log[i].b \in bs}
DataStmts(bs) == {i \in DOMAIN log : log[i].e = "stmt" /\ log[i].k = "data" /\ log[i].b \in bs}
\* A checkout or a statement of block b failed.
Failures(b) ==
  {i \in DOMAIN log : log[i].e \in {"connect", "stmt"} /\ log[i].b = b /\ log[i].msg # ""}
\* Anything a block of bs did on the pool or the database.
DbEvents(bs) == {i \in DOMAIN log : log[i].e \in {"connect", "stmt"} /\ log[i].b \in bs}

\* The messages the three patterns of the retry test match.
RecoverableMsgs ==
  {"syntax error", "OVER is not supported for ordered-set aggregate", "percentile_cont OVER"}

\* C13: within one request the planner is asked for SQL at most twice and a
\* planned statement is executed at most twice (the fallback aside); the second
\* plan is requested only after the first execution failed with a recoverable
\* message; after any other execution error the request ends with a 500 and
\* there is no second planner call and no second execution.
C13_BoundedRetry ==
  /\ Cardinality(LlmCalls({"plan", "replan"})) <= 2
  /\ Cardinality(LlmCalls({"plan"})) <= 1
  /\ Cardinality(DataStmts({"main", "retry"})) <= 2
  /\ Cardinality(DataStmts({"main"})) <= 1
  /\ \A i \in LlmCalls({"replan"}) \cup DbEvents({"retry"}) :
       \E j \in Failures("main") : j < i /\ log[j].msg \in RecoverableMsgs
  /\ \A j \in Failures("main") :
       log[j].msg \notin RecoverableMsgs =>
         /\ pc = "done" /\ resp.status = 500
         /\ LlmCalls({"replan"}) = {}
         /\ DbEvents({"retry", "fallback"}) = {}

C13_Witness ==
  /\ pc = "done"
  /\ Cardinality(LlmCalls({"plan", "replan"})) = 2
  /\ Cardinality(DataStmts({"main", "retry"})) = 2
  /\ \E j \in Failures("main") : log[j].msg = "percentile_cont OVER"

\* Nothing but the release of the connection follows entry i of the trace.
LastAttempt(i) == \A j \in DOMAIN log : j > i => log[j].e = "release"

\* C14: when the retried statement also fails at execution, the handler of
\* src/api/query.js and the planner handler send a 500 JSON error response with
\* the error message and the SQL, and attempt nothing further.
C14_RetryExhaustionReported ==
  hv \in {"query", "planner"} =>
    \A i \in Failures("retry") :
      /\ pc = "done"
      /\ resp.status = 500
      /\ resp.msg = log[i].msg
      /\ resp.withSql
      /\ LastAttempt(i)

\* C15: the empty-result fallback runs at most once per request, only after the
\* last planned execution (the main one or the retried one) succeeded with zero
\* rows on a statement holding a `ts >=` filter; nothing is executed after the
\* fallback, whatever it returns.
C15_FallbackOnce ==
  /\ Cardinality({i \in DbEvents({"fallback"}) : log[i].e = "connect"}) <= 1
  /\ Cardinality(DataStmts({"fallback"})) <= 1
  /\ \A i \in DbEvents({"fallback"}) :
       \E j \in DataStmts({"main", "retry"}) :
         /\ j < i
         /\ \A k \in DataStmts({"main", "retry"}) : k <= j
         /\ log[j].msg = ""
         /\ log[j].n = 0
         /\ HasTsFilter(log[j].sql)
  /\ \A i \in DataStmts({"fallback"}) : \A j \in DbEvents(DbBlocks) : j <= i

C15_Witness ==
  /\ pc = "done"
  /\ resp.status = 200
  /\ DataStmts({"retry"}) # {}
  /\ \E i \in DataStmts({"fallback"}) : log[i].msg = "" /\ log[i].n = 0

\* Successful checkouts and releases in the trace.
Checkouts == {i \in DOMAIN log : log[i].e = "connect" /\ log[i].msg = ""}
Releases == {i \in DOMAIN log : log[i].e = "release"}
\* The releases of the connection checked out at entry i: those before the next
\* checkout.
ReleasesOf(i) ==
  {j \in Releases : j > i /\ \A k \in Checkouts : k > i => j < k}

\* C16: when a request ended - with a response or with an exception - every
\* connection it checked out has been released exactly once and the number of
\* checked-out connections is what it was when the request began.
C16_PoolConservation ==
  Ended =>
    /\ inUse = env.others
    /\ \A i \in Checkouts : Cardinality(ReleasesOf(i)) = 1
    /\ Cardinality(Releases) = Cardinality(Checkouts)

C16_Witness ==
  /\ hv = "query"
  /\ pc = "thrown"
  /\ env.others = 1
  /\ Cardinality(Checkouts) = 4
  /\ Failures("retry") # {}

\* C17: on every connection the handler of src/api/query.js or the planner
\* handler checks out from the pool, SET statement_timeout is
\* issued - and succeeds - right after the checkout and before any other
\* statement runs on it; the schema introspection of fetchSchema included.
C17_TimeoutBeforeUse ==
  hv \in {"query", "planner"} =>
    \A i \in DOMAIN log :
      (log[i].e = "stmt" /\ log[i].k # "SET") =>
        /\ i > 2
        /\ log[i - 1] = StmtEv(log[i].b, "SET", <<>>, "", 0)
        /\ log[i - 2] = ConnectEv(log[i].b, "")

\* The probe of the request completed: SELECT 1 succeeded under the timeout.
ProbeDone(i) ==
  \E j \in DOMAIN log :
    j < i /\ log[j] = StmtEv("probe", "SELECT 1", <<>>, "", 0)

\* C18: in the handler of src/api/query.js and in the planner handler the probe
\* (checkout, SET statement_timeout, SELECT 1) completes before any LLM call and
\* before any other query; when the checkout or the probe fails the response is
\* a 500 and neither an LLM call nor another database statement is issued.
C18_ProbeBeforeLlm ==
  hv \in {"query", "planner"} =>
    /\ \A i \in LlmCalls({"plan", "replan", "summarize"}) \cup DbEvents(DbBlocks \ {"probe"}) :
         ProbeDone(i)
    /\ \A i \in Failures("probe") :
         /\ pc = "done"
         /\ resp.status = 500
         /\ LlmCalls({"plan", "replan", "summarize"}) = {}
         /\ DbEvents(DbBlocks \ {"probe"}) = {}
         /\ LastAttempt(i)

C18_Witness ==
  /\ hv \in {"query", "planner"}
  /\ Failures("probe") # {}
  /\ FastPath(hv, question) = "none"
  /\ env.key
  /\ pc = "done"
  /\ resp.error = "DB error"

\* The texts guardSql accepted and returned before entry i of the trace.
GuardedBefore(i) ==
  {log[j].out : j \in {k \in DOMAIN log : k < i /\ log[k].e = "guard" /\ log[k].msg = ""}}

\* C19: apart from the probe and the schema introspection, every statement the
\* handler of src/api/query.js or the planner handler executes is a text guardSql accepted and returned earlier in the
\* request; the fast-path statements and the fallback statement included.
C19_ExecutedWasGuarded ==
  hv \in {"query", "planner"} =>
    \A i \in DataStmts(DbBlocks) : log[i].sql \in GuardedBefore(i)

\* guardSql rejected the candidate of entry i of the trace.
GuardRejections == {i \in DOMAIN log : log[i].e = "guard" /\ log[i].msg # ""}

\* C20: whenever guardSql rejects a candidate - the first plan or the plan of
\* the retry - the handler (of src/api/query.js, or the planner handler) responds at once with status 400, the guard's error
\* message and the rejected candidate, and executes nothing for that candidate.
C20_GuardRejectionIs400 ==
  hv \in {"query", "planner"} =>
    \A i \in GuardRejections :
      /\ i = Len(log)
      /\ pc = "done"
      /\ resp.status = 400
      /\ resp.msg = log[i].msg
      /\ resp.withSql
      /\ resp.sql = log[i].sql

\* ------------------------------------------------ the head of the handlers

\* Header values of a request. "" is a header the request does not carry
\* (req.headers.x || '').
Hosts == {"", "a.example", "b.example", "A.example:80"}
\* Referer / Origin values: none, text new URL() throws on, URLs.
Referers ==
  {"", "not a url", "http://a.example/ui", "http://b.example/ui", "http://A.example:80/ui",
   "file:///ui"}
Origins == {"", "http://a.example", "http://b.example"}
ServiceKeys == {"", "k1", "k2"}
RequiredKeys == {"", "k1"}
Methods == {"GET", "POST"}
\* req.body: a string JSON.parse throws on, a body with no question, a body
\* with a question.
Bodies == {"bad json", "no question", "question"}

\* new URL(u): whether it parses, and the host it reports (lower case, the
\* scheme's default port dropped, empty for a file: URL).
UrlParses(u) == u \notin {"", "not a url"}
UrlHost(u) ==
  CASE u \in {"http://a.example/ui", "http://a.example", "http://A.example:80/ui"} -> "a.example"
    [] u \in {"http://b.example/ui", "http://b.example"} -> "b.example"
    [] OTHER -> ""

\* const referer = req.headers.referer || req.headers.origin || '';
\* try { sameOrigin = !!referer && new URL(referer).host === host } catch { false }
RefererOrOrigin(r) == IF r.referer # "" THEN r.referer ELSE r.origin
sameOrigin(r) ==
  /\ RefererOrOrigin(r) # ""
  /\ UrlParses(RefererOrOrigin(r))
  /\ UrlHost(RefererOrOrigin(r)) = r.host

\* !svcKey || svcKey !== requiredKey, negated
KeyEqual(svcKey, requiredKey) == svcKey = requiredKey
KeyOk(svcKey, requiredKey) == svcKey # "" /\ svcKey = requiredKey

\* The auth check of the handler h lets the request r pass.
AuthPasses(h, r) ==
  IF h = "part_009"
  THEN r.requiredKey # "" /\ r.svcKey = r.requiredKey
  ELSE sameOrigin(r) \/ KeyOk(r.svcKey, r.requiredKey)

\* The first awaited step of the handler h.
FirstStep(h) == IF h = "part_009" THEN "schema" ELSE "probe"

\* Method and auth checks.
AfterAuth(h, r) ==
  IF r.method # "POST" THEN Send(405, "Use POST", "")
  ELSE IF ~AuthPasses(h, r) THEN Send(401, "unauthorized", "")
  ELSE Goto("body")

\* The body is parsed and the question read.
AfterBody(h, r) ==
  CASE r.body = "bad json" ->
         IF h = "part_009" THEN Send(500, "", "Unexpected token")
         ELSE Send(400, "Invalid JSON body", "")
    [] r.body = "no question" -> Send(400, "Missing \"question\"", "")
    [] OTHER -> Goto(FirstStep(h))

RequestInit ==
  /\ hv \in HandlerVariants
  /\ env \in [q : {"latest"}, key : {TRUE}, others : {0}, method : Methods, host : Hosts,
              referer : Referers, origin : Origins, svcKey : ServiceKeys,
              requiredKey : RequiredKeys, body : Bodies]
  /\ schemaCache = FALSE
  /\ pc = "auth"
  /\ ph = ""
  /\ inUse = env.others
  /\ plannedSql = <<>>
  /\ safeSql = <<>>
  /\ rows = -1
  /\ log = <<>>
  /\ resp = NoResp
  /\ queue = <<>>
  /\ cand = env.q
  /\ sql = <<>>
  /\ question = HQuestionText(env.q)
  /\ op = "idle"
  /\ res = NoResult

Authenticate ==
  /\ pc = "auth"
  /\ Jump(AfterAuth(hv, env))
  /\ UNCHANGED <<hv, env, schemaCache, inUse, plannedSql, safeSql, rows, log, queue, gvars>>

ParseBody ==
  /\ pc = "body"
  /\ Jump(AfterBody(hv, env))
  /\ UNCHANGED <<hv, env, schemaCache, inUse, plannedSql, safeSql, rows, log, queue, gvars>>

RequestNext == Authenticate \/ ParseBody \/ Connect \/ SetTimeout \/ Query

RequestSpec == RequestInit /\ [][RequestNext]_vars

\* The Referer of the request, or its Origin when it has no Referer, is a URL
\* whose host is the request's Host header.
RefersToOwnHost(r) ==
  \/ r.referer # "" /\ UrlParses(r.referer) /\ UrlHost(r.referer) = r.host
  \/ r.referer = "" /\ r.origin # "" /\ UrlParses(r.origin) /\ UrlHost(r.origin) = r.host
\* The request got past the method and auth checks.
PastAuth == pc # "auth" /\ ~(pc = "done" /\ resp.status \in {401, 405})

C22_RowBound ==
  (pc = "done" /\ resp.status = 200) => resp.rows <= MAX_LIMIT

\* The summarizing call of the request failed.
SummaryFailed ==
  \E i \in LlmCalls({"summarize"}) : log[i].msg # ""

\* C23: when the summarizing call fails after rows were obtained, the handler
\* of src/api/query.js and the planner handler still answer 200, and the answer
\* is exactly `Returned N row(s).` with N the number of rows returned.
C23_SummaryDegrades ==
  (hv \in {"query", "planner"} /\ SummaryFailed) =>
    /\ pc = "done"
    /\ resp.status = 200
    /\ resp.rows = rows
    /\ resp.answer.text = ReturnedRows(rows)

\* ------------------------------------------------------------ fetchSchema

\* Rows of information_schema.columns: schema, table, column.
InfoCol(s, t, c) == [schema |-> s, table |-> t, column |-> c]
LiveColumns ==
  {InfoCol("public", "market_data", "ts"), InfoCol("public", "market_data", "utilization"),
   InfoCol("public", "token_prices", "price"), InfoCol("clean", "market_data", "ts"),
   InfoCol("public", "secret", "ts")}
\* Fully-qualified tables a deployment declares under package.json "tables".
Fq(s, t) == <<s, t>>
PkgTables == {Fq("public", "market_data"), Fq("public", "token_prices")}
\* The table fetchSchema of src/api/query.js names in its query.
ApiDeclared == {Fq("public", "market_data")}

\* What fetchSchema gives: a thrown error, or tables and colsByTable.
SchemaError(msg) == [ok |-> FALSE, err |-> msg, tables |-> {}, colsByTable |-> <<>>]
SchemaOf(keys, rs, key(_)) ==
  [ok |-> TRUE, err |-> "", tables |-> keys,
   colsByTable |-> [k \in keys |-> {Lower(r.column) : r \in {x \in rs : key(x) = k}}]]

\* fetchSchema(pool) of lib/schema.js: the rows whose schema.table is declared,
\* keyed by schema.table.
LibFetchSchema(declared, live, msg) ==
  IF declared = {} THEN SchemaOf({}, {}, LAMBDA r : Fq(r.schema, r.table))
  ELSE IF msg # "" THEN SchemaError(msg)
  ELSE LET rs == {r \in live : Fq(r.schema, r.table) \in declared} IN
       SchemaOf({Fq(r.schema, r.table) : r \in rs}, rs, LAMBDA r : Fq(r.schema, r.table))

\* fetchSchema() of src/api/query.js: the rows of public.market_data, keyed by
\* the lower-case table name.
ApiFetchSchema(live, msg) ==
  IF msg # "" THEN SchemaError(msg)
  ELSE LET rs == {r \in live : Fq(r.schema, r.table) \in ApiDeclared} IN
       SchemaOf({Lower(r.table) : r \in rs}, rs, LAMBDA r : Lower(r.table))

SchemaInit ==
  /\ cand \in [declared : SUBSET PkgTables, live : SUBSET LiveColumns,
               msg : {"", "statement timeout"}]
  /\ sql = <<>>
  /\ question = <<>>
  /\ op = "idle"
  /\ res = NoResult
  /\ NoRequest

LibFetch ==
  /\ op = "idle"
  /\ op' = "libFetch"
  /\ res' = LibFetchSchema(cand.declared, cand.live, cand.msg)
  /\ UNCHANGED <<cand, sql, question, hvars>>

ApiFetch ==
  /\ op = "idle"
  /\ op' = "apiFetch"
  /\ res' = ApiFetchSchema(cand.live, cand.msg)
  /\ UNCHANGED <<cand, sql, question, hvars>>

SchemaNext == LibFetch \/ ApiFetch

SchemaSpec == SchemaInit /\ [][SchemaNext]_vars

\* The declared tables information_schema.columns has no column of.
MissingTables(declared, live) ==
  {t \in declared : ~\E r \in live : r.schema = t[1] /\ r.table = t[2]}

\* C24: when a declared table has no columns in information_schema.columns,
\* fetchSchema fails instead of returning; it never returns a result from whose
\* tables and colsByTable a declared table is absent.
C24_SchemaMismatchFails ==
  /\ (op = "libFetch" /\ MissingTables(cand.declared, cand.live) # {}) => ~res.ok
  /\ (op = "apiFetch" /\ MissingTables(ApiDeclared, cand.live) # {}) => ~res.ok

\* The requests that ask for the latest utilization of a ticker, and the ticker.
AsksLatestUtilization == env.q \in {"latest", "latest_weth"}
AskedTicker == IF env.q = "latest_weth" THEN "WETH" ELSE "USDC"

\* C25: a question for the latest utilization of a ticker takes the utilization
\* fast path in the handler of src/api/query.js and in the planner handler: the
\* statement executed is the hand-written one on public.market_data for that
\* ticker, the planner is not asked, no other fast path is taken, and the
\* answer is 'Latest <TICKER> utilization is NN.NN%.'.
C25_UtilizationFastPath ==
  (hv \in {"query", "planner"} /\ AsksLatestUtilization) =>
    /\ LlmCalls({"plan", "replan", "summarize"}) = {}
    /\ pc \in {"probe", "fast", "done"}
    /\ \A i \in DataStmts(DbBlocks) :
         log[i].b = "fast" /\ log[i].sql = latestSql(AskedTicker)
    /\ (pc = "done" /\ resp.status = 200 /\ resp.rows > 0) =>
         resp.answer = Ans("latest utilization", AskedTicker, 2, TRUE, 0)

\* ------------------------------------------- stripTimeFilterIfAny on its own

\* Guarded statements with a time predicate ts >= NOW() - INTERVAL '<n> days':
\* where the predicate stands, the window, the spacing, what follows the WHERE
\* clause, and whether the statement is a derived table of an outer one.
StripPlaces == {"only", "first", "last", "middle"}
StripWindows == {7, 30}
StripTails == {"none", "order", "limit", "order_limit"}
StripCases ==
  [place : StripPlaces, window : StripWindows, tight : BOOLEAN, tail : StripTails,
   nested : BOOLEAN]

TimePredicate(c) ==
  (IF c.tight THEN Toks(<<"ts", ">", "=", "NOW", "(", ")">>)
   ELSE Toks(<<"ts", " ", ">", "=", " ", "NOW", "(", ")">>))
    \o Toks(<<" ", "-", " ", "INTERVAL", " ", "'">>) \o <<Num(c.window)>>
    \o Toks(<<" ", "days", "'">>)
SymbolPredicate == Toks(<<"symbol", " ", "=", " ", "'", "USDC", "'">>)
ProtocolPredicate == Toks(<<"protocol", " ", "=", " ", "'", "aave", "'">>)
AndTok == Toks(<<" ", "AND", " ">>)
WhereText(c) ==
  Toks(<<"WHERE", " ">>) \o
    (CASE c.place = "only" -> TimePredicate(c)
       [] c.place = "first" -> TimePredicate(c) \o AndTok \o SymbolPredicate
       [] c.place = "last" -> SymbolPredicate \o AndTok \o TimePredicate(c)
       [] c.place = "middle" ->
            ProtocolPredicate \o AndTok \o TimePredicate(c) \o AndTok \o SymbolPredicate)
OrderText == Toks(<<" ", "ORDER", " ", "BY", " ", "ts", " ", "DESC">>)
LimitText == <<W("\n"), W("LIMIT"), W(" "), Num(MAX_LIMIT)>>
TailText(c) ==
  CASE c.tail = "none" -> <<>>
    [] c.tail = "order" -> OrderText
    [] c.tail = "limit" -> LimitText
    [] c.tail = "order_limit" -> OrderText \o LimitText
InnerText(c) ==
  Toks(<<"SELECT", " ", "*", " ", "FROM", " ", "public", ".", "market_data", " ">>)
    \o WhereText(c)
StripText(c) ==
  IF c.nested
  THEN Toks(<<"SELECT", " ", "*", " ", "FROM", " ", "(">>) \o InnerText(c)
         \o Toks(<<")", " ", "t">>) \o TailText(c)
  ELSE InnerText(c) \o TailText(c)

StripInit ==
  /\ cand \in StripCases
  /\ sql = StripText(cand)
  /\ question = <<>>
  /\ op = "idle"
  /\ res = NoResult
  /\ NoRequest

\* const fallback = stripTimeFilterIfAny(safeSql)
Strip ==
  /\ op = "idle"
  /\ op' = "strip"
  /\ res' = Accept(stripTimeFilterIfAny(sql))
  /\ UNCHANGED <<cand, sql, question, hvars>>

StripNext == Strip

StripSpec == StripInit /\ [][StripNext]_vars

\* No prefix of the text closes more parentheses than it opened, and the text
\* closes all of them.
Balanced(s) ==
  /\ \A i \in 1..(Len(s) + 1) : Depth(s, i) >= 0
  /\ Depth(s, Len(s) + 1) = 0
EndsWith(s, t) == Len(t) <= Len(s) /\ SubSeq(s, Len(s) - Len(t) + 1, Len(s)) = t
\* What the statement of case c is without its time predicate.
WithoutTimePredicate(c) ==
  LET where == CASE c.place = "only" -> <<>>
                 [] c.place \in {"first", "last"} -> SymbolPredicate
                 [] c.place = "middle" -> ProtocolPredicate \o AndTok \o SymbolPredicate
  IN [where |-> where, tail |-> IF c.nested THEN Toks(<<")", " ", "t">>) \o TailText(c)
                                ELSE TailText(c)]
\* Position i of s starts the lexemes t.
OccursAt(s, i, t) == i + Len(t) - 1 <= Len(s) /\ SubSeq(s, i, i + Len(t) - 1) = t
\* The WHERE clause of s is WHERE 1=1 or WHERE <the predicates w>, up to spaces,
\* and is followed by the tail t.
WhereIs(s, w, t) ==
  \E i \in DOMAIN s :
    /\ WordAt(s, i, {"where"})
    /\ LET j == SkipSpaces(s, i + 1) IN
       \/ /\ w # <<>> /\ OccursAt(s, j, w)
          /\ TrimLeft(SubSeq(s, j + Len(w), Len(s))) = TrimLeft(t)
       \/ /\ w = <<>> /\ OccursAt(s, j, <<Num(1), W("="), Num(1)>>)
          /\ TrimLeft(SubSeq(s, j + 3, Len(s))) = TrimLeft(t)

\* C26: for a guarded statement with balanced parentheses whose WHERE clause
\* has a predicate ts >= NOW() - INTERVAL '<window>', first after WHERE or
\* joined by AND, stripTimeFilterIfAny returns a statement with balanced
\* parentheses from which the whole predicate is gone, with the other
\* predicates, ORDER BY and LIMIT unchanged and a valid WHERE clause.
C26_StripWellFormed ==
  op = "strip" =>
    /\ Balanced(res.out)
    /\ ~HasTsFilter(SubSeq(res.out, 1, Len(res.out) - Len(TailText(cand))))
    /\ ~\E i \in DOMAIN res.out : Is(res.out[i], "INTERVAL")
    /\ WhereIs(res.out, WithoutTimePredicate(cand).where, WithoutTimePredicate(cand).tail)

\* The hourly pre-aggregation applies to the statement and the question.
NeedsHourlyPreAgg ==
  /\ QuestionStreak(question)
  /\ ~HasDateTruncHour(sql)
  /\ \E i \in DOMAIN sql : FromPmdAt(sql, i) # 0
  /\ HasUtilization(sql)

\* C27: when the question mentions consecutive/streak/hour(s) and the statement
\* reads utilization from public.market_data without date_trunc('hour', ...),
\* the output of tweakSqlHeuristics holds the derived table h as it is written
\* in the code - its inner query truncating the base column ts - and nothing in
\* front of the derived table but the original text with bare ts renamed to hour.
C27_HourlyPreAggKeepsTs ==
  (op = "tweak" /\ NeedsHourlyPreAgg) =>
    \E i \in DOMAIN res.out :
      /\ OccursAt(res.out, i, HourlyWrap)
      /\ \A j \in 1..(i - 1) :
           res.out[j] = IF WordAt(sql, j, {"ts"}) THEN W("hour") ELSE sql[j]

\* The number N of the question's `at least N`, 0 when it has none.
AtLeastN(q) ==
  LET ms == {i \in DOMAIN q :
               LET j == SkipSpaces(q, i + 1)
                   k == SkipSpaces(q, j + 1) IN
               /\ WordAt(q, i, {"at"}) /\ j > i + 1 /\ WordAt(q, j, {"least"})
               /\ k > j + 1 /\ k \in DOMAIN q /\ IsNum(q[k])} IN
  IF ms = {} THEN 0
  ELSE q[SkipSpaces(q, SkipSpaces(q, MinOf(ms) + 1) + 1)].n
\* The comparisons `streak_count <rel> n` and `hours <rel> n` of s, as
\* <<name, rel, n>>; rel is "=" or ">=".
Comparisons(s) ==
  {<<Lower(s[i].w), "=", s[SkipSpaces(s, SkipSpaces(s, i + 1) + 1)].n>> :
     i \in {x \in DOMAIN s :
              LET j == SkipSpaces(s, x + 1)
                  k == SkipSpaces(s, j + 1) IN
              /\ WordAt(s, x, {"streak_count", "hours"})
              /\ j \in DOMAIN s /\ Is(s[j], "=")
              /\ k \in DOMAIN s /\ IsNum(s[k])}}
  \cup
  {<<Lower(s[i].w), ">=", s[SkipSpaces(s, SkipSpaces(s, i + 1) + 2)].n>> :
     i \in {x \in DOMAIN s :
              LET j == SkipSpaces(s, x + 1)
                  k == SkipSpaces(s, j + 2) IN
              /\ WordAt(s, x, {"streak_count", "hours"})
              /\ j < Len(s) /\ Is(s[j], ">") /\ Is(s[j + 1], "=")
              /\ k \in DOMAIN s /\ IsNum(s[k])}}
\* The comparisons of s with `= N` turned into `>= N` for N = n (n > 0).
Normalized(cs, n) ==
  {IF c[2] = "=" /\ c[3] = n /\ n > 0 THEN <<c[1], ">=", c[3]>> ELSE c : c \in cs}

\* C28: for every positive N, when the question holds `at least N`,
\* tweakSqlHeuristics turns `streak_count = N` and `hours = N` into `>= N`;
\* comparisons with another number, and those of a statement whose question has
\* no `at least N`, stay as they are.
C28_AtLeastN ==
  op = "tweak" => Comparisons(res.out) = Normalized(Comparisons(sql), AtLeastN(question))

\* C29: whatever the outcomes of its awaited steps, the handler of
\* src/api/query.js finishes having sent a response: it never ends by throwing
\* without having responded.
C29_OneResponse ==
  (hv = "query" /\ Ended) => (pc = "done" /\ resp.status # 0)

\* ------------------------------------------- concurrent requests on one pool

\* Requests of api/query.js that run at the same time on the module's one pool
\* (lines 12-15).  Each request has its own position (pc, ph), its own guarded
\* statement and its own count of held connections; the schema cache and the
\* pool are shared.  A pool of env.pool connections hands a connection out at
\* once when one is free and nobody waits, and queues the caller otherwise.
NumRequests == 2
MaxPool == 2
Requests == 1..NumRequests

RECURSIVE Total(_, _)
Total(f, S) == IF S = {} THEN 0 ELSE LET x == CHOOSE y \in S : TRUE IN f[x] + Total(f, S \ {x})
\* Connections of the pool nobody holds.
Free == env.pool - Total(inUse, Requests)

\* What the planner answers to a request of this specification.
PoolOutcomes == {"error", "window"}
\* A failure the handler retries and one it does not.
PoolMsgs == {"syntax error", "statement timeout"}
LlmSteps == {"plan", "replan", "summarize"}

PoolInit ==
  /\ hv = "query"
  /\ env \in [q : {"other"}, key : {TRUE}, others : {0}, pool : 1..MaxPool]
  /\ pc = [r \in Requests |-> "probe"]
  /\ ph = [r \in Requests |-> "connect"]
  /\ inUse = [r \in Requests |-> 0]
  /\ schemaCache \in BOOLEAN
  /\ plannedSql = <<>>
  /\ safeSql = [r \in Requests |-> <<>>]
  /\ rows = -1
  /\ log = <<>>
  /\ resp = NoResp
  /\ queue = <<>>
  /\ cand = "pool"
  /\ sql = <<>>
  /\ question = HQuestionText(env.q)
  /\ op = "idle"
  /\ res = NoResult

\* Request r goes where one request of the handler goes.
PoolJump(r, j) == pc' = [pc EXCEPT ![r] = j.pc] /\ ph' = [ph EXCEPT ![r] = j.ph]

\* Request r calls pool.connect().
PoolConnect(r) ==
  /\ pc[r] \in DbBlocks /\ ph[r] = "connect"
  /\ IF Free > 0 /\ queue = <<>>
     THEN \E msg \in {""} \cup PoolMsgs :
            IF msg = ""
            THEN /\ inUse' = [inUse EXCEPT ![r] = Checkout(@)]
                 /\ ph' = [ph EXCEPT ![r] = FirstPhase(pc[r])]
                 /\ UNCHANGED <<pc, queue>>
            ELSE /\ PoolJump(r, OnError(hv, pc[r], question, env.key, schemaCache, msg,
                                        safeSql[r], safeSql[r]))
                 /\ UNCHANGED <<inUse, queue>>
     ELSE /\ queue' = Append(queue, r)
          /\ ph' = [ph EXCEPT ![r] = "wait"]
          /\ UNCHANGED <<pc, inUse>>
  /\ UNCHANGED <<hv, env, schemaCache, plannedSql, safeSql, rows, log, resp, gvars>>

\* The pool hands a free connection to the request that waited longest.
Serve ==
  /\ queue # <<>> /\ Free > 0
  /\ inUse' = [inUse EXCEPT ![Head(queue)] = Checkout(@)]
  /\ ph' = [ph EXCEPT ![Head(queue)] = FirstPhase(pc[Head(queue)])]
  /\ queue' = Tail(queue)
  /\ UNCHANGED <<hv, env, pc, schemaCache, plannedSql, safeSql, rows, log, resp, gvars>>

\* SET statement_timeout of request r; on failure the finally block releases.
PoolSet(r) ==
  /\ pc[r] \in DbBlocks /\ ph[r] = "set"
  /\ \E msg \in {""} \cup PoolMsgs :
       IF msg = ""
       THEN /\ ph' = [ph EXCEPT ![r] = "query"]
            /\ UNCHANGED <<pc, inUse>>
       ELSE /\ inUse' = [inUse EXCEPT ![r] = Checkin(@)]
            /\ PoolJump(r, OnError(hv, pc[r], question, env.key, schemaCache, msg,
                                   safeSql[r], safeSql[r]))
  /\ UNCHANGED <<hv, env, schemaCache, plannedSql, safeSql, rows, log, resp, queue, gvars>>

\* The statement of request r's block, the release in finally and the code up
\* to the next await.
PoolQuery(r) ==
  /\ pc[r] \in DbBlocks /\ ph[r] = "query"
  /\ \E msg \in {""} \cup PoolMsgs :
     \E n \in (IF msg # "" \/ pc[r] \in {"probe", "schema"} THEN {0} ELSE {0, 1}) :
       /\ inUse' = [inUse EXCEPT ![r] = Checkin(@)]
       /\ IF msg = ""
          THEN /\ PoolJump(r, OnOk(hv, pc[r], question, env.key, schemaCache, n, safeSql[r]))
               /\ schemaCache' = IF pc[r] = "schema" THEN TRUE ELSE schemaCache
          ELSE /\ PoolJump(r, OnError(hv, pc[r], question, env.key, schemaCache, msg,
                                      safeSql[r], safeSql[r]))
               /\ UNCHANGED schemaCache
  /\ UNCHANGED <<hv, env, plannedSql, safeSql, rows, log, resp, queue, gvars>>

\* An LLM call of request r returns: the planner, the retry or the summary.
PoolLlm(r) ==
  /\ pc[r] \in LlmSteps
  /\ IF pc[r] = "summarize"
     THEN /\ PoolJump(r, AfterSummary(hv, TRUE, safeSql[r], 0))
          /\ UNCHANGED safeSql
     ELSE \E o \in PoolOutcomes :
          \E c \in {IF o \in PlanTexts THEN Candidate(hv, PlanText(o), question) ELSE <<>>} :
          \E guarded \in {(o \in PlanTexts) /\ ApiPrefixOk(Trim(PlanText(o)))} :
          \E g \in {IF guarded THEN HandlerGuard(hv, c) ELSE NoResult} :
            /\ safeSql' = [safeSql EXCEPT ![r] = IF g.ok THEN g.out ELSE @]
            /\ PoolJump(r, IF pc[r] = "plan" THEN AfterPlan(hv, o, c, g)
                           ELSE AfterReplan(hv, o, c, g, c, safeSql[r]))
  /\ UNCHANGED <<hv, env, schemaCache, inUse, plannedSql, rows, log, resp, queue, gvars>>

PoolNext ==
  \/ \E r \in Requests : PoolConnect(r)
  \/ Serve
  \/ \E r \in Requests : PoolSet(r)
  \/ \E r \in Requests : PoolQuery(r)
  \/ \E r \in Requests : PoolLlm(r)

PoolSpec == PoolInit /\ [][PoolNext]_vars

\* Every statement terminates and the pool serves its queue.
FairPoolSpec ==
  /\ PoolSpec
  /\ WF_vars(Serve)
  /\ \A r \in Requests : WF_vars(PoolSet(r)) /\ WF_vars(PoolQuery(r))

\* C30: a request holds at most one connection of the pool, none while one of
\* its LLM calls is outstanding and none when it asks for or waits for a
\* checkout; so the pool is never exhausted by requests that all wait for a
\* checkout, and every waiting checkout is eventually served.
OneAtATime ==
  \A r \in Requests :
    /\ inUse[r] <= 1
    /\ pc[r] \in LlmSteps => inUse[r] = 0
    /\ ph[r] \in {"connect", "wait"} => inUse[r] = 0
AllHeldByWaiters ==
  /\ queue # <<>>
  /\ Free <= 0
  /\ \A r \in Requests : inUse[r] > 0 => ph[r] = "wait"
C30_OneConnectionAtATime ==
  /\ [](OneAtATime /\ ~AllHeldByWaiters)
  /\ \A r \in Requests : (ph[r] = "wait") ~> (ph[r] # "wait")
\* A request waits for a checkout while another holds the last connection and
\* runs its statement.
C30_Witness ==
  \E r, s \in Requests : ph[r] = "wait" /\ inUse[s] = 1 /\ ph[s] = "query" /\ Free = 0

====
